---- MODULE Spec2Model ----
(***************************************************************************)
(* Verification model of the buffered-reader filters of sequoia:           *)
(*   BufferedReaderLimitor            (buffered-reader/src/limitor.rs)     *)
(*   BufferedReaderPartialBodyFilter  (openpgp/src/partial_body.rs)        *)
(* Both filters sit on an inner BufferedReader.  The inner reader and the  *)
(* new-format length-header parser live outside the modelled sources and   *)
(* follow the BufferedReader contract and RFC 4880 section 4.2.2.          *)
(***************************************************************************)
EXTENDS Integers, Sequences, FiniteSets, TLC

\* ------------------------------------------------------------------ bounds
\* Longest byte source under a limitor stack.
MaxSrc == 3
\* Largest budget a limitor is constructed with.
MaxLimit == 3
\* Largest amount a caller passes to an operation.
MaxAmount == 3
\* Longest initial chunk / last chunk of a partial-body stream.
MaxChunk == 2
\* Most length headers in a partial-body stream.
MaxHdrs == 2
\* Most bytes that follow the last chunk in the inner stream.
MaxTrail == 1
\* Largest packet tag number handed to CTBOld::new.
MaxTag == 17
\* A limitor stack holds one limitor, or two nested ones.
Depths == {1, 2}

VARIABLES
    src,                  \* the bytes of the underlying source (fixed)
    reader,               \* the innermost reader: [pos, buf]
    limit,                \* limitor stack, limit[k] = budget of the k-th limitor above the leaf
    limit0,               \* the budgets the stack was constructed with
    ref,                  \* a single limitor with the tightest budget, driven in lockstep
    partial_body_length,  \* PartialBodyFilter.partial_body_length
    last,                 \* PartialBodyFilter.last
    buffer,               \* PartialBodyFilter.buffer: <<>> is None, <<b>> is Some(b)
    cursor,               \* PartialBodyFilter.cursor
    initial,              \* the partial_body_length the filter was constructed with
    delivered,            \* bytes the caller consumed through the filter, in order
    peeked,               \* bytes the caller has seen by data and not yet consumed
    lastOp,               \* the last call and what it returned
    framed,               \* src is a complete framing (not cut short)
    panicked,             \* an assertion failed: the process aborted
    fault,                \* what goes wrong under the filter: [kind, at]
    ctb,                  \* the last CTBOld::new call: its arguments and its result
    fill,                 \* do_fill_buffer in progress: its local variables
    conv                  \* the last PacketLengthType conversion: its argument and results

vars == <<src, reader, limit, limit0, ref, partial_body_length, last, buffer,
          cursor, initial, delivered, peeked, lastOp, framed, panicked, fault, ctb,
          fill, conv>>

Min(a, b) == IF a <= b THEN a ELSE b
Max(a, b) == IF a >= b THEN a ELSE b

Amounts == 0 .. MaxAmount

IsPrefix(s, t) == Len(s) <= Len(t) /\ SubSeq(t, 1, Len(s)) = s

\* ------------------------------------------------------------ the old CTB
\* ctb.rs.  A Tag is modelled by its number, tag.into(); a BodyLength is
\* [kind, len] with kind "Full", "Partial" or "Indeterminate".

\* The values of a u8.
U8 == 0 .. 255

\* enum PacketLengthType
PacketLengthTypes == {"OneOctet", "TwoOctets", "FourOctets", "Indeterminate"}

\* Faulty variant: the length types are numbered from 1.
PacketLengthTypeTryFrom_FromOne(u) ==
    CASE u = 1 -> [res |-> "ok", l |-> "OneOctet"]
      [] u = 2 -> [res |-> "ok", l |-> "TwoOctets"]
      [] u = 3 -> [res |-> "ok", l |-> "FourOctets"]
      [] u = 4 -> [res |-> "ok", l |-> "Indeterminate"]
      [] OTHER -> [res |-> "InvalidArgument", l |-> "None"]

\* PacketLengthType::try_from(u)
PacketLengthTypeTryFrom(u) ==
    CASE u = 0 -> [res |-> "ok", l |-> "OneOctet"]
      [] u = 1 -> [res |-> "ok", l |-> "TwoOctets"]
      [] u = 2 -> [res |-> "ok", l |-> "FourOctets"]
      [] u = 3 -> [res |-> "ok", l |-> "Indeterminate"]
      [] OTHER -> [res |-> "InvalidArgument", l |-> "None"]

\* u8::from(l)
U8FromPacketLengthType(l) ==
    CASE l = "OneOctet" -> 0
      [] l = "TwoOctets" -> 1
      [] l = "FourOctets" -> 2
      [] l = "Indeterminate" -> 3

\* No conversion has been made.
NoConv == [op |-> "none", u |-> 0, l |-> "None", res |-> "ok", arg |-> 0]

CtbErr == [res |-> "InvalidArgument", tag |-> -1, length_type |-> "None"]

CtbOk(tag, length_type) == [res |-> "ok", tag |-> tag, length_type |-> length_type]

\* Faulty variant: tag 15 is refused.
CTBOldNew_TagBelow15(tag, length) ==
    IF tag >= 15 THEN CtbErr
    ELSE IF length.kind = "Full"
    THEN CtbOk(tag, IF length.len <= 255 THEN "OneOctet"
                    ELSE IF length.len <= 65535 THEN "TwoOctets"
                    ELSE "FourOctets")
    ELSE IF length.kind = "Partial" THEN CtbErr
    ELSE CtbOk(tag, "Indeterminate")

\* CTBOld::new(tag, length)
CTBOldNew(tag, length) ==
    IF tag > 15 THEN CtbErr
    ELSE IF length.kind = "Full"
    THEN CtbOk(tag, IF length.len <= 255 THEN "OneOctet"
                    ELSE IF length.len <= 65535 THEN "TwoOctets"
                    ELSE "FourOctets")
    ELSE IF length.kind = "Partial" THEN CtbErr
    ELSE CtbOk(tag, "Indeterminate")

NoCtb == [called |-> FALSE, tag |-> 0, length |-> [kind |-> "Indeterminate", len |-> 0],
          result |-> CtbErr]

\* ------------------------------------------------------- the inner reader
\* A reader over `src`: pos bytes are consumed, the buf bytes after them are
\* buffered.  A memory reader has everything buffered from the start; a
\* generic reader buffers on demand and never shrinks its buffer.

\* Nothing goes wrong: the source can be read to its end and the length-header
\* parser returns Partial or Full.  Otherwise fault.kind is "io": reading the
\* source at offset fault.at fails with an I/O error, each time it is tried; or
\* "indeterminate": the parser, called at offset fault.at, returns
\* Indeterminate.
NoFault == [kind |-> "none", at |-> 0]

\* No do_fill_buffer is running.  While one runs, fill holds the call that
\* started it (op, amount), the bytes in its new buffer (acc), err, and how
\* many turns of the loop and header parses it has made.
NoFill == [pc |-> "idle", op |-> "none", amount |-> 0, acc |-> <<>>, err |-> "none",
           nh |-> 0, herr |-> FALSE, turns |-> 0]

Remaining(r) == Len(src) - r.pos

InnerView(r, n) == SubSeq(src, r.pos + 1, r.pos + n)

\* To return amount bytes the reader has to read the source where it fails.
SourceFails(r, amount) ==
    fault.kind = "io" /\ r.buf < amount /\ r.pos + amount > fault.at

InnerErr(r) ==
    [rd |-> [pos |-> r.pos, buf |-> Max(r.buf, fault.at - r.pos)],
     res |-> "io", view |-> <<>>]

InnerData(r, amount) ==
    LET nb == Max(r.buf, Min(amount, Remaining(r)))
    IN  IF SourceFails(r, amount) THEN InnerErr(r)
        ELSE [rd |-> [pos |-> r.pos, buf |-> nb], res |-> "ok", view |-> InnerView(r, nb)]

InnerConsume(r, amount) ==
    IF amount > r.buf
    THEN [rd |-> r, res |-> "panic", view |-> <<>>]
    ELSE [rd |-> [pos |-> r.pos + amount, buf |-> r.buf - amount],
          res |-> "ok", view |-> InnerView(r, r.buf)]

InnerDataConsume(r, amount) ==
    LET d == InnerData(r, amount)
    IN  IF d.res # "ok" THEN d
        ELSE InnerConsume(d.rd, Min(amount, Len(d.view)))

InnerDataConsumeHard(r, amount) ==
    LET d == InnerData(r, amount)
    IN  IF d.res # "ok" THEN d
        ELSE IF Len(d.view) < amount
        THEN [rd |-> d.rd, res |-> "eof", view |-> <<>>]
        ELSE InnerConsume(d.rd, amount)

\* read(buf) through the generic read helper: data_consume, then copy.
InnerRead(r, n) ==
    LET c == InnerDataConsume(r, n)
    IN  [rd |-> c.rd, res |-> c.res, view |-> SubSeq(c.view, 1, Min(n, Len(c.view)))]

\* ------------------------------------------------------------ the limitor
\* A stack of limitors: level 0 is the inner reader, level k >= 1 is the
\* limitor whose budget is lims[k] and whose reader is level k - 1.
\* Every operation returns [lims, rd, res, view].

RECURSIVE StackData(_, _, _, _)
RECURSIVE StackConsume(_, _, _, _)
RECURSIVE StackDataConsume(_, _, _, _)
RECURSIVE StackDataConsumeHard(_, _, _, _)
RECURSIVE StackRead(_, _, _, _)

Leaf(lims, x) == [lims |-> lims, rd |-> x.rd, res |-> x.res, view |-> x.view]

\* Faulty variant: data forgets to truncate the view the inner reader returned.
LimitorData_NoClip(k, lims, rd, amount) ==
    StackData(k - 1, lims, rd, Min(amount, lims[k]))

\* Faulty variant: data asks the inner reader for the whole amount.
LimitorData_AskAll(k, lims, rd, amount) ==
    LET result == StackData(k - 1, lims, rd, amount)
    IN  IF result.res = "ok" /\ Len(result.view) > lims[k]
        THEN [result EXCEPT !.view = SubSeq(result.view, 1, lims[k])]
        ELSE result

LimitorData(k, lims, rd, amount) ==
    LET amt == Min(amount, lims[k])
        result == StackData(k - 1, lims, rd, amt)
    IN  IF result.res = "ok" /\ Len(result.view) > lims[k]
        THEN [result EXCEPT !.view = SubSeq(result.view, 1, lims[k])]
        ELSE result

\* Faulty variant: consume returns the inner reader's view as it comes.
LimitorConsume_NoClip(k, lims, rd, amount) ==
    IF ~(amount <= lims[k])
    THEN [lims |-> lims, rd |-> rd, res |-> "panic", view |-> <<>>]
    ELSE StackConsume(k - 1, [lims EXCEPT ![k] = lims[k] - amount], rd, amount)

LimitorConsume(k, lims, rd, amount) ==
    IF ~(amount <= lims[k])
    THEN [lims |-> lims, rd |-> rd, res |-> "panic", view |-> <<>>]
    ELSE LET l1 == [lims EXCEPT ![k] = lims[k] - amount]
             data == StackConsume(k - 1, l1, rd, amount)
         IN  IF data.res = "panic" THEN data
             ELSE [data EXCEPT !.view =
                     SubSeq(data.view, 1, Min(data.lims[k] + amount, Len(data.view)))]

\* Faulty variant: data_consume hands the unclipped amount to the inner reader.
LimitorDataConsume_Unclipped(k, lims, rd, amount) ==
    LET amt == Min(amount, lims[k])
        result == StackDataConsume(k - 1, lims, rd, amount)
    IN  IF result.res = "ok"
        THEN [result EXCEPT
                !.lims = [result.lims EXCEPT ![k] = result.lims[k] - amt],
                !.view = SubSeq(result.view, 1,
                                Min(Len(result.view), (result.lims[k] - amt) + amt))]
        ELSE result

\* Faulty variant: the budget is lowered whether or not the inner call
\* succeeded.
LimitorDataConsumeDone_Always(k, amt, result) ==
    [result EXCEPT
       !.lims = [result.lims EXCEPT ![k] = result.lims[k] - amt],
       !.view = SubSeq(result.view, 1,
                       Min(Len(result.view), (result.lims[k] - amt) + amt))]

\* data_consume once the inner data_consume(amt) has returned result.
LimitorDataConsumeDone(k, amt, result) ==
    IF result.res = "ok"
    THEN [result EXCEPT
            !.lims = [result.lims EXCEPT ![k] = result.lims[k] - amt],
            !.view = SubSeq(result.view, 1,
                            Min(Len(result.view), (result.lims[k] - amt) + amt))]
    ELSE result

LimitorDataConsume(k, lims, rd, amount) ==
    LimitorDataConsumeDone(k, Min(amount, lims[k]),
                           StackDataConsume(k - 1, lims, rd, Min(amount, lims[k])))

\* Faulty variant: data_consume_hard delegates without looking at the budget.
LimitorDataConsumeHard_NoGuard(k, lims, rd, amount) ==
    LET result == StackDataConsumeHard(k - 1, lims, rd, amount)
    IN  IF result.res = "ok"
        THEN [result EXCEPT
                !.lims = [result.lims EXCEPT ![k] = result.lims[k] - amount],
                !.view = SubSeq(result.view, 1,
                                Min(Len(result.view), (result.lims[k] - amount) + amount))]
        ELSE result

LimitorDataConsumeHard(k, lims, rd, amount) ==
    IF amount > lims[k]
    THEN [lims |-> lims, rd |-> rd, res |-> "eof", view |-> <<>>]
    ELSE LET result == StackDataConsumeHard(k - 1, lims, rd, amount)
         IN  IF result.res = "ok"
             THEN [result EXCEPT
                     !.lims = [result.lims EXCEPT ![k] = result.lims[k] - amount],
                     !.view = SubSeq(result.view, 1,
                                     Min(Len(result.view), (result.lims[k] - amount) + amount))]
             ELSE result

LimitorRead(k, lims, rd, n) ==
    LET len == Min(lims[k], n)
    IN  StackRead(k - 1, lims, rd, len)

StackData(k, lims, rd, a) ==
    IF k = 0 THEN Leaf(lims, InnerData(rd, a)) ELSE LimitorData(k, lims, rd, a)

StackConsume(k, lims, rd, a) ==
    IF k = 0 THEN Leaf(lims, InnerConsume(rd, a)) ELSE LimitorConsume(k, lims, rd, a)

StackDataConsume(k, lims, rd, a) ==
    IF k = 0 THEN Leaf(lims, InnerDataConsume(rd, a)) ELSE LimitorDataConsume(k, lims, rd, a)

StackDataConsumeHard(k, lims, rd, a) ==
    IF k = 0 THEN Leaf(lims, InnerDataConsumeHard(rd, a))
    ELSE LimitorDataConsumeHard(k, lims, rd, a)

StackRead(k, lims, rd, n) ==
    IF k = 0 THEN Leaf(lims, InnerRead(rd, n)) ELSE LimitorRead(k, lims, rd, n)

\* One limitor directly on the inner reader, the reference a nested stack is
\* compared with.  Every operation returns [limit, rd, res, view].
OneRes(l, x, n) == [limit |-> l, rd |-> x.rd, res |-> x.res, view |-> SubSeq(x.view, 1, n)]

OneData(l, rd, amount) ==
    LET result == InnerData(rd, Min(amount, l))
    IN  OneRes(l, result, Min(Len(result.view), l))

OneConsume(l, rd, amount) ==
    IF ~(amount <= l)
    THEN [limit |-> l, rd |-> rd, res |-> "panic", view |-> <<>>]
    ELSE LET data == InnerConsume(rd, amount)
         IN  IF data.res = "panic" THEN OneRes(l, data, 0)
             ELSE OneRes(l - amount, data, Min((l - amount) + amount, Len(data.view)))

OneDataConsume(l, rd, amount) ==
    LET amt == Min(amount, l)
        result == InnerDataConsume(rd, amt)
    IN  IF result.res = "ok"
        THEN OneRes(l - amt, result, Min(Len(result.view), (l - amt) + amt))
        ELSE OneRes(l, result, Len(result.view))

OneDataConsumeHard(l, rd, amount) ==
    IF amount > l
    THEN [limit |-> l, rd |-> rd, res |-> "eof", view |-> <<>>]
    ELSE LET result == InnerDataConsumeHard(rd, amount)
         IN  IF result.res = "ok"
             THEN OneRes(l - amount, result, Min(Len(result.view), (l - amount) + amount))
             ELSE OneRes(l, result, Len(result.view))

OneRead(l, rd, n) ==
    LET result == InnerRead(rd, Min(l, n))
    IN  OneRes(l, result, Len(result.view))

\* ------------------------------------------------- limitor: state machine

SrcBytes(n) == [i \in 1 .. n |-> 100 + i]

Depth == Len(limit)

\* No limitor of the stack has been peeled off yet.
Unpeeled == Len(limit) = Len(limit0)

RECURSIVE MinOf(_)
MinOf(s) == IF Len(s) = 1 THEN s[1] ELSE Min(s[1], MinOf(Tail(s)))

Op(name, a, r) == [op |-> name, amount |-> a, res |-> r.res, view |-> r.view]

NoFilterState ==
    /\ partial_body_length = 0
    /\ last = FALSE
    /\ buffer = <<>>
    /\ cursor = 0
    /\ initial = 0
    /\ framed = FALSE

LimInit ==
    /\ src \in {SrcBytes(n) : n \in 0 .. MaxSrc}
    /\ reader \in {[pos |-> 0, buf |-> b] : b \in {0, Len(src)}}
    /\ limit \in UNION {[1 .. d -> 0 .. MaxLimit] : d \in Depths}
    /\ limit0 = limit
    /\ ref = [limit |-> MinOf(limit), rd |-> reader, res |-> "ok", view |-> <<>>]
    /\ NoFilterState
    /\ delivered = <<>>
    /\ peeked = 0
    /\ lastOp = [op |-> "new", amount |-> 0, res |-> "ok", view |-> <<>>]
    /\ panicked = FALSE
    /\ fault = NoFault
    /\ ctb = NoCtb
    /\ fill = NoFill
    /\ conv = NoConv

FilterUnchanged ==
    UNCHANGED <<src, limit0, partial_body_length, last, buffer, cursor, initial, framed,
                fault, ctb, fill, conv>>

\* What every limitor call does to the model's state, given its result r, the
\* result rr of the same call on the reference limitor, and the bytes dlv the
\* call delivered to the caller.
LimEffect(name, a, r, rr, dlv, pk) ==
    /\ limit' = r.lims
    /\ reader' = r.rd
    /\ ref' = IF Unpeeled THEN rr ELSE ref
    /\ delivered' = delivered \o dlv
    /\ peeked' = pk
    /\ lastOp' = Op(name, a, r)
    /\ panicked' = (r.res = "panic")
    /\ FilterUnchanged

LimData(a) ==
    /\ ~panicked
    /\ \E r \in {StackData(Depth, limit, reader, a)},
          rr \in {OneData(ref.limit, ref.rd, a)} :
           LimEffect("data", a, r, rr, <<>>, IF r.res = "ok" THEN Len(r.view) ELSE peeked)

LimConsume(a) ==
    /\ ~panicked
    /\ a <= peeked
    /\ \E r \in {StackConsume(Depth, limit, reader, a)},
          rr \in {OneConsume(ref.limit, ref.rd, a)} :
           LimEffect("consume", a, r, rr,
                     IF r.res = "ok" THEN SubSeq(r.view, 1, a) ELSE <<>>, peeked - a)

LimDataConsume(a) ==
    /\ ~panicked
    /\ \E r \in {StackDataConsume(Depth, limit, reader, a)},
          rr \in {OneDataConsume(ref.limit, ref.rd, a)} :
           LET n == Min(a, Len(r.view))
           IN  LimEffect("data_consume", a, r, rr,
                         IF r.res = "ok" THEN SubSeq(r.view, 1, n) ELSE <<>>,
                         IF r.res = "ok" THEN Max(0, peeked - n) ELSE peeked)

LimDataConsumeHard(a) ==
    /\ ~panicked
    /\ \E r \in {StackDataConsumeHard(Depth, limit, reader, a)},
          rr \in {OneDataConsumeHard(ref.limit, ref.rd, a)} :
           LimEffect("data_consume_hard", a, r, rr,
                     IF r.res = "ok" THEN SubSeq(r.view, 1, a) ELSE <<>>,
                     IF r.res = "ok" THEN Max(0, peeked - a) ELSE peeked)

LimRead(n) ==
    /\ ~panicked
    /\ \E r \in {StackRead(Depth, limit, reader, n)},
          rr \in {OneRead(ref.limit, ref.rd, n)} :
           LimEffect("read", n, r, rr,
                     IF r.res = "ok" THEN r.view ELSE <<>>,
                     Max(0, peeked - Len(r.view)))

\* into_inner: the outermost limitor hands out its reader, its budget is gone.
LimIntoInner ==
    /\ ~panicked
    /\ Depth >= 1
    /\ limit' = SubSeq(limit, 1, Depth - 1)
    /\ peeked' = 0
    /\ lastOp' = [op |-> "into_inner", amount |-> 0, res |-> "ok", view |-> <<>>]
    /\ UNCHANGED <<reader, ref, delivered, panicked>>
    /\ FilterUnchanged

LimNext ==
    \/ \E a \in Amounts : LimData(a)
    \/ \E a \in Amounts : LimConsume(a)
    \/ \E a \in Amounts : LimDataConsume(a)
    \/ \E a \in Amounts : LimDataConsumeHard(a)
    \/ \E n \in Amounts : LimRead(n)
    \/ LimIntoInner

SpecLimitor == LimInit /\ [][LimNext]_vars

\* ------------------------------------------- the new-format length header
\* body_length_new_format(reader), RFC 4880 section 4.2.2: one octet below 192
\* is a full length, 192..223 starts a two-octet full length, 224..254 is a
\* partial length 2^(octet & 0x1F), 255 starts a five-octet full length.
\* Returns [rd, res, kind, len]; every octet is taken with data_consume_hard.

HdrErr(rd, res) == [rd |-> rd, res |-> res, kind |-> "None", len |-> 0]

HdrOk(rd, kind, len) == [rd |-> rd, res |-> "ok", kind |-> kind, len |-> len]

BodyLengthNewFormat(rd) ==
    LET o == InnerDataConsumeHard(rd, 1)
    IN  IF o.res # "ok" THEN HdrErr(o.rd, o.res)
        ELSE IF fault.kind = "indeterminate" /\ fault.at = rd.pos
        THEN HdrOk(o.rd, "Indeterminate", 0)
        ELSE LET octet1 == o.view[1]
             IN  IF octet1 < 192 THEN HdrOk(o.rd, "Full", octet1)
                 ELSE IF octet1 < 224
                 THEN LET p == InnerDataConsumeHard(o.rd, 1)
                      IN  IF p.res # "ok" THEN HdrErr(p.rd, p.res)
                          ELSE HdrOk(p.rd, "Full", (octet1 - 192) * 256 + p.view[1] + 192)
                 ELSE IF octet1 < 255
                 THEN HdrOk(o.rd, "Partial", 2 ^ (octet1 - 224))
                 ELSE LET q == InnerDataConsumeHard(o.rd, 4)
                      IN  IF q.res # "ok" THEN HdrErr(q.rd, q.res)
                          ELSE HdrOk(q.rd, "Full",
                                     ((q.view[1] * 256 + q.view[2]) * 256 + q.view[3]) * 256
                                       + q.view[4])

\* ------------------------------------------------- the partial body filter
\* The filter's fields as a record f = [partial_body_length, last, buffer,
\* cursor, reader].

Filter == [partial_body_length |-> partial_body_length, last |-> last,
           buffer |-> buffer, cursor |-> cursor, reader |-> reader]

\* The loop of do_fill_buffer.  acc is buffer[..amount_buffered]; nh counts the
\* length headers parsed.  Returns [pbl, last, rd, acc, err, nh, herr] with err
\* one of "none", "panic", or the error that ended the loop, and herr telling
\* that the error is the header parser's.
RECURSIVE FillLoop(_, _, _, _, _, _)

FillEnd(pbl, lst, rd, acc, err, nh) ==
    [pbl |-> pbl, last |-> lst, rd |-> rd, acc |-> acc, err |-> err, nh |-> nh,
     herr |-> FALSE]

\* Faulty variant: the fill stops at the end of the chunk instead of parsing the
\* next length header.
FillHeader_NoParse(pbl, lst, rd, acc, amount, nh) ==
    FillEnd(pbl, lst, rd, acc, "none", nh)

\* Faulty variant: an Indeterminate length is taken for an empty last chunk.
FillParsed_IndeterminateAsLast(pbl, lst, h, acc, amount, nh) ==
    IF h.res = "panic" THEN FillEnd(pbl, lst, h.rd, acc, "panic", nh)
    ELSE IF h.res # "ok"
    THEN [FillEnd(pbl, lst, h.rd, acc, h.res, nh) EXCEPT !.herr = TRUE]
    ELSE IF h.kind = "Full" THEN FillLoop(h.len, TRUE, h.rd, acc, amount, nh)
    ELSE IF h.kind = "Partial" THEN FillLoop(h.len, lst, h.rd, acc, amount, nh)
    ELSE FillLoop(0, TRUE, h.rd, acc, amount, nh)

\* Faulty variant: a Full length does not set the last-chunk flag.
FillParsed_FullNotLast(pbl, lst, h, acc, amount, nh) ==
    IF h.res = "panic" THEN FillEnd(pbl, lst, h.rd, acc, "panic", nh)
    ELSE IF h.res # "ok"
    THEN [FillEnd(pbl, lst, h.rd, acc, h.res, nh) EXCEPT !.herr = TRUE]
    ELSE IF h.kind = "Full" THEN FillLoop(h.len, lst, h.rd, acc, amount, nh)
    ELSE IF h.kind = "Partial" THEN FillLoop(h.len, lst, h.rd, acc, amount, nh)
    ELSE FillEnd(pbl, lst, h.rd, acc, "panic", nh)

\* The match on the parsed header h: the loop goes on with the next chunk, or
\* ends with the parser's error.
FillParsed(pbl, lst, h, acc, amount, nh) ==
    IF h.res = "panic" THEN FillEnd(pbl, lst, h.rd, acc, "panic", nh)
    ELSE IF h.res # "ok"
    THEN [FillEnd(pbl, lst, h.rd, acc, h.res, nh) EXCEPT !.herr = TRUE]
    ELSE IF h.kind = "Full" THEN FillLoop(h.len, TRUE, h.rd, acc, amount, nh)
    ELSE IF h.kind = "Partial" THEN FillLoop(h.len, lst, h.rd, acc, amount, nh)
    ELSE FillEnd(pbl, lst, h.rd, acc, "panic", nh)

\* Faulty variant: the loop goes on to parse a header after the last chunk.
FillHeader_IgnoreLast(pbl, lst, rd, acc, amount, nh) ==
    IF Len(acc) = amount THEN FillEnd(pbl, lst, rd, acc, "none", nh)
    ELSE IF pbl # 0 THEN FillEnd(pbl, lst, rd, acc, "panic", nh)
    ELSE FillParsed(pbl, lst, BodyLengthNewFormat(rd), acc, amount, nh + 1)

\* The end of one turn of the loop: enough is buffered, or the next length
\* header is parsed.
FillHeader(pbl, lst, rd, acc, amount, nh) ==
    IF Len(acc) = amount \/ lst THEN FillEnd(pbl, lst, rd, acc, "none", nh)
    ELSE IF pbl # 0 THEN FillEnd(pbl, lst, rd, acc, "panic", nh)
    ELSE FillParsed(pbl, lst, BodyLengthNewFormat(rd), acc, amount, nh + 1)

\* Faulty variant: a short read does not end the loop.
FillLoop_NoShortBreak(pbl, lst, rd, acc, amount, nh) ==
    LET to_read == Min(pbl, amount - Len(acc))
    IN  IF to_read > 0
        THEN LET result == InnerRead(rd, to_read)
                 did_read == Len(result.view)
             IN  IF result.res # "ok"
                 THEN FillEnd(pbl, lst, result.rd, acc, result.res, nh)
                 ELSE FillHeader(pbl - did_read, lst, result.rd, acc \o result.view,
                                 amount, nh)
        ELSE FillHeader(pbl, lst, rd, acc, amount, nh)

\* Faulty variant: the counter is lowered by the bytes asked for, not by the
\* bytes the inner reader returned.
FillLoop_CountAsked(pbl, lst, rd, acc, amount, nh) ==
    LET to_read == Min(pbl, amount - Len(acc))
    IN  IF to_read > 0
        THEN LET result == InnerRead(rd, to_read)
                 did_read == Len(result.view)
             IN  IF result.res # "ok"
                 THEN FillEnd(pbl, lst, result.rd, acc, result.res, nh)
                 ELSE IF did_read < to_read
                 THEN FillEnd(pbl - to_read, lst, result.rd, acc \o result.view, "none", nh)
                 ELSE FillHeader(pbl - to_read, lst, result.rd, acc \o result.view,
                                 amount, nh)
        ELSE FillHeader(pbl, lst, rd, acc, amount, nh)

FillLoop(pbl, lst, rd, acc, amount, nh) ==
    LET to_read == Min(pbl, amount - Len(acc))
    IN  IF to_read > 0
        THEN LET result == InnerRead(rd, to_read)
                 did_read == Len(result.view)
             IN  IF result.res # "ok"
                 THEN FillEnd(pbl, lst, result.rd, acc, result.res, nh)
                 ELSE IF did_read < to_read
                 THEN FillEnd(pbl - did_read, lst, result.rd, acc \o result.view, "none", nh)
                 ELSE FillHeader(pbl - did_read, lst, result.rd, acc \o result.view,
                                 amount, nh)
        ELSE FillHeader(pbl, lst, rd, acc, amount, nh)

\* One turn of do_fill_buffer's loop, from the top of the loop to its break or
\* to the end of its body: the state e it leaves and whether the loop is left.
FillTurnEnd(e, exit) ==
    [pbl |-> e.pbl, last |-> e.last, rd |-> e.rd, acc |-> e.acc, err |-> e.err,
     nh |-> e.nh, herr |-> e.herr, exit |-> exit]

\* Faulty variant: after a short read the loop goes round again.
FillTurn_RetryShortRead(pbl, lst, rd, acc, amount, nh) ==
    LET to_read == Min(pbl, amount - Len(acc))
        result == IF to_read > 0 THEN InnerRead(rd, to_read)
                  ELSE [rd |-> rd, res |-> "ok", view |-> <<>>]
        did_read == Len(result.view)
        pbl1 == pbl - did_read
        acc1 == acc \o result.view
    IN  IF result.res # "ok"
        THEN FillTurnEnd(FillEnd(pbl, lst, result.rd, acc, result.res, nh), TRUE)
        ELSE IF did_read < to_read
        THEN FillTurnEnd(FillEnd(pbl1, lst, result.rd, acc1, "none", nh), FALSE)
        ELSE IF Len(acc1) = amount \/ lst
        THEN FillTurnEnd(FillEnd(pbl1, lst, result.rd, acc1, "none", nh), TRUE)
        ELSE IF pbl1 # 0
        THEN FillTurnEnd(FillEnd(pbl1, lst, result.rd, acc1, "panic", nh), TRUE)
        ELSE LET h == BodyLengthNewFormat(result.rd)
             IN  IF h.res = "panic"
                 THEN FillTurnEnd(FillEnd(pbl1, lst, h.rd, acc1, "panic", nh + 1), TRUE)
                 ELSE IF h.res # "ok"
                 THEN FillTurnEnd([FillEnd(pbl1, lst, h.rd, acc1, h.res, nh + 1)
                                     EXCEPT !.herr = TRUE], TRUE)
                 ELSE IF h.kind = "Full"
                 THEN FillTurnEnd(FillEnd(h.len, TRUE, h.rd, acc1, "none", nh + 1), FALSE)
                 ELSE IF h.kind = "Partial"
                 THEN FillTurnEnd(FillEnd(h.len, lst, h.rd, acc1, "none", nh + 1), FALSE)
                 ELSE FillTurnEnd(FillEnd(pbl1, lst, h.rd, acc1, "panic", nh + 1), TRUE)

FillTurn(pbl, lst, rd, acc, amount, nh) ==
    LET to_read == Min(pbl, amount - Len(acc))
        result == IF to_read > 0 THEN InnerRead(rd, to_read)
                  ELSE [rd |-> rd, res |-> "ok", view |-> <<>>]
        did_read == Len(result.view)
        pbl1 == pbl - did_read
        acc1 == acc \o result.view
    IN  IF result.res # "ok"
        THEN FillTurnEnd(FillEnd(pbl, lst, result.rd, acc, result.res, nh), TRUE)
        ELSE IF did_read < to_read
        THEN FillTurnEnd(FillEnd(pbl1, lst, result.rd, acc1, "none", nh), TRUE)
        ELSE IF Len(acc1) = amount \/ lst
        THEN FillTurnEnd(FillEnd(pbl1, lst, result.rd, acc1, "none", nh), TRUE)
        ELSE IF pbl1 # 0
        THEN FillTurnEnd(FillEnd(pbl1, lst, result.rd, acc1, "panic", nh), TRUE)
        ELSE LET h == BodyLengthNewFormat(result.rd)
             IN  IF h.res = "panic"
                 THEN FillTurnEnd(FillEnd(pbl1, lst, h.rd, acc1, "panic", nh + 1), TRUE)
                 ELSE IF h.res # "ok"
                 THEN FillTurnEnd([FillEnd(pbl1, lst, h.rd, acc1, h.res, nh + 1)
                                     EXCEPT !.herr = TRUE], TRUE)
                 ELSE IF h.kind = "Full"
                 THEN FillTurnEnd(FillEnd(h.len, TRUE, h.rd, acc1, "none", nh + 1), FALSE)
                 ELSE IF h.kind = "Partial"
                 THEN FillTurnEnd(FillEnd(h.len, lst, h.rd, acc1, "none", nh + 1), FALSE)
                 ELSE FillTurnEnd(FillEnd(pbl1, lst, h.rd, acc1, "panic", nh + 1), TRUE)

\* Faulty variant: when the loop ended with an error the bytes it had
\* accumulated are dropped.
FillInstall_DropOnError(e) ==
    [f |-> [partial_body_length |-> e.pbl, last |-> e.last,
            buffer |-> <<IF e.err = "none" THEN e.acc ELSE <<>>>>, cursor |-> 0,
            reader |-> e.rd],
     res |-> IF e.err = "none" THEN "ok" ELSE e.err,
     nh |-> e.nh, herr |-> e.herr]

\* After the loop ended as e: the new buffer is installed, error or not.
FillInstall(e) ==
    [f |-> [partial_body_length |-> e.pbl, last |-> e.last,
            buffer |-> <<e.acc>>, cursor |-> 0, reader |-> e.rd],
     res |-> IF e.err = "none" THEN "ok" ELSE e.err,
     nh |-> e.nh, herr |-> e.herr]

\* Faulty variant: do_fill_buffer forgets the bytes still pending in the old
\* buffer.
DoFillBuffer_DropOld(f, amount) ==
    FillInstall(FillLoop(f.partial_body_length, f.last, f.reader, <<>>, amount, 0))

\* Faulty variant: do_fill_buffer copies the old buffer from its start, the
\* bytes before the cursor included.
DoFillBuffer_WholeOld(f, amount) ==
    LET amount_left == IF f.buffer # <<>> THEN Len(f.buffer[1]) - f.cursor ELSE 0
        old == IF f.buffer # <<>> THEN f.buffer[1] ELSE <<>>
    IN  IF f.buffer # <<>> /\ ~(amount > amount_left)
        THEN [f |-> f, res |-> "panic", nh |-> 0, herr |-> FALSE]
        ELSE FillInstall(FillLoop(f.partial_body_length, f.last, f.reader, old, amount, 0))

\* do_fill_buffer(amount): returns [f, res, nh, herr].
DoFillBuffer(f, amount) ==
    LET amount_left == IF f.buffer # <<>> THEN Len(f.buffer[1]) - f.cursor ELSE 0
        old == IF f.buffer # <<>>
               THEN SubSeq(f.buffer[1], f.cursor + 1, Len(f.buffer[1])) ELSE <<>>
    IN  IF f.buffer # <<>> /\ ~(amount > amount_left)
        THEN [f |-> f, res |-> "panic", nh |-> 0, herr |-> FALSE]
        ELSE FillInstall(FillLoop(f.partial_body_length, f.last, f.reader, old, amount, 0))

\* What a filter call returns: the filter after it, the outcome, the view,
\* whether do_fill_buffer ran (a side buffer was allocated), the headers
\* parsed, and whether the call went to the inner reader directly.
PbfRes(f, res, view, filled, nh, direct) ==
    [f |-> f, res |-> res, view |-> view, filled |-> filled, nh |-> nh,
     direct |-> direct, herr |-> FALSE]

\* Faulty variant: the cursor is advanced whether or not the call consumes.
FromBuffer_AlwaysConsume(f, amount, hard, and_consume, filled, nh) ==
    LET buf == SubSeq(f.buffer[1], f.cursor + 1, Len(f.buffer[1]))
    IN  IF hard /\ Len(buf) < amount
        THEN PbfRes(f, "eof", <<>>, filled, nh, FALSE)
        ELSE PbfRes([f EXCEPT !.cursor = f.cursor + Min(amount, Len(buf))],
                    "ok", buf, filled, nh, FALSE)

\* Faulty variant: the cursor is never advanced, consuming call or not.
FromBuffer_NeverConsume(f, amount, hard, and_consume, filled, nh) ==
    LET buf == SubSeq(f.buffer[1], f.cursor + 1, Len(f.buffer[1]))
    IN  IF hard /\ Len(buf) < amount
        THEN PbfRes(f, "eof", <<>>, filled, nh, FALSE)
        ELSE PbfRes(f, "ok", buf, filled, nh, FALSE)

\* Faulty variant: a hard call that fails has consumed what was pending.
FromBuffer_ConsumeOnFail(f, amount, hard, and_consume, filled, nh) ==
    LET buf == SubSeq(f.buffer[1], f.cursor + 1, Len(f.buffer[1]))
    IN  IF hard /\ Len(buf) < amount
        THEN PbfRes([f EXCEPT !.cursor = f.cursor + Len(buf)], "eof", <<>>, filled, nh, FALSE)
        ELSE PbfRes(IF and_consume
                    THEN [f EXCEPT !.cursor = f.cursor + Min(amount, Len(buf))]
                    ELSE f,
                    "ok", buf, filled, nh, FALSE)

\* Faulty variant: a hard call served from the side buffer may come back short.
FromBuffer_NeverHard(f, amount, hard, and_consume, filled, nh) ==
    LET buf == SubSeq(f.buffer[1], f.cursor + 1, Len(f.buffer[1]))
    IN  PbfRes(IF and_consume
               THEN [f EXCEPT !.cursor = f.cursor + Min(amount, Len(buf))]
               ELSE f,
               "ok", buf, filled, nh, FALSE)

\* The tail of data_helper: serve the call from the side buffer.
\* Faulty variant: a consuming call advances the cursor by the amount asked,
\* also when fewer bytes are pending.
FromBuffer_AdvanceAmount(f, amount, hard, and_consume, filled, nh) ==
    LET buf == SubSeq(f.buffer[1], f.cursor + 1, Len(f.buffer[1]))
    IN  IF hard /\ Len(buf) < amount
        THEN PbfRes(f, "eof", <<>>, filled, nh, FALSE)
        ELSE PbfRes(IF and_consume
                    THEN [f EXCEPT !.cursor = f.cursor + amount]
                    ELSE f,
                    "ok", buf, filled, nh, FALSE)

FromBuffer(f, amount, hard, and_consume, filled, nh) ==
    LET buf == SubSeq(f.buffer[1], f.cursor + 1, Len(f.buffer[1]))
    IN  IF hard /\ Len(buf) < amount
        THEN PbfRes(f, "eof", <<>>, filled, nh, FALSE)
        ELSE PbfRes(IF and_consume
                    THEN [f EXCEPT !.cursor = f.cursor + Min(amount, Len(buf))]
                    ELSE f,
                    "ok", buf, filled, nh, FALSE)

\* Faulty variant: the fast path returns the inner view whole, beyond the
\* end of the chunk.
FastPath_NoTruncate(f, amount, hard, and_consume) ==
    LET result == IF hard /\ and_consume THEN InnerDataConsumeHard(f.reader, amount)
                  ELSE IF and_consume THEN InnerDataConsume(f.reader, amount)
                  ELSE InnerData(f.reader, amount)
        g == [f EXCEPT !.reader = result.rd]
        amount_buffered == Min(Len(result.view), f.partial_body_length)
    IN  IF result.res # "ok" THEN PbfRes(g, result.res, <<>>, FALSE, 0, TRUE)
        ELSE IF hard /\ amount_buffered < amount
        THEN PbfRes(g, "eof", <<>>, FALSE, 0, TRUE)
        ELSE PbfRes(IF and_consume
                    THEN [g EXCEPT !.partial_body_length =
                            f.partial_body_length - Min(amount, amount_buffered)]
                    ELSE g,
                    "ok", result.view, FALSE, 0, TRUE)

\* Faulty variant: a consuming call on the fast path leaves the counter alone.
FastPath_NoDecrement(f, amount, hard, and_consume) ==
    LET result == IF hard /\ and_consume THEN InnerDataConsumeHard(f.reader, amount)
                  ELSE IF and_consume THEN InnerDataConsume(f.reader, amount)
                  ELSE InnerData(f.reader, amount)
        g == [f EXCEPT !.reader = result.rd]
        amount_buffered == Min(Len(result.view), f.partial_body_length)
    IN  IF result.res # "ok" THEN PbfRes(g, result.res, <<>>, FALSE, 0, TRUE)
        ELSE IF hard /\ amount_buffered < amount
        THEN PbfRes(g, "eof", <<>>, FALSE, 0, TRUE)
        ELSE PbfRes(g, "ok", SubSeq(result.view, 1, amount_buffered), FALSE, 0, TRUE)

\* Faulty variant: a consuming call on the fast path lowers the counter by the
\* amount asked, whatever the inner reader returned.
FastPath_DecrementAmount(f, amount, hard, and_consume) ==
    LET result == IF hard /\ and_consume THEN InnerDataConsumeHard(f.reader, amount)
                  ELSE IF and_consume THEN InnerDataConsume(f.reader, amount)
                  ELSE InnerData(f.reader, amount)
        g == [f EXCEPT !.reader = result.rd]
        amount_buffered == Min(Len(result.view), f.partial_body_length)
    IN  IF result.res # "ok" THEN PbfRes(g, result.res, <<>>, FALSE, 0, TRUE)
        ELSE IF hard /\ amount_buffered < amount
        THEN PbfRes(g, "eof", <<>>, FALSE, 0, TRUE)
        ELSE PbfRes(IF and_consume
                    THEN [g EXCEPT !.partial_body_length = f.partial_body_length - amount]
                    ELSE g,
                    "ok", SubSeq(result.view, 1, amount_buffered), FALSE, 0, TRUE)

\* The fast path of data_helper: delegate to the inner reader.
FastPath(f, amount, hard, and_consume) ==
    LET result == IF hard /\ and_consume THEN InnerDataConsumeHard(f.reader, amount)
                  ELSE IF and_consume THEN InnerDataConsume(f.reader, amount)
                  ELSE InnerData(f.reader, amount)
        g == [f EXCEPT !.reader = result.rd]
        amount_buffered == Min(Len(result.view), f.partial_body_length)
    IN  IF result.res # "ok" THEN PbfRes(g, result.res, <<>>, FALSE, 0, TRUE)
        ELSE IF hard /\ amount_buffered < amount
        THEN PbfRes(g, "eof", <<>>, FALSE, 0, TRUE)
        ELSE PbfRes(IF and_consume
                    THEN [g EXCEPT !.partial_body_length =
                            f.partial_body_length - Min(amount, amount_buffered)]
                    ELSE g,
                    "ok", SubSeq(result.view, 1, amount_buffered), FALSE, 0, TRUE)

\* Faulty variant: without a side buffer every request goes to the inner reader.
NeedFill_NoBoundary(f, amount) ==
    IF f.buffer # <<>>
    THEN amount > Len(f.buffer[1]) - f.cursor
    ELSE FALSE

NeedFill(f, amount) ==
    IF f.buffer # <<>>
    THEN amount > Len(f.buffer[1]) - f.cursor
    ELSE ~(amount <= f.partial_body_length \/ f.last)

\* data_helper after do_fill_buffer returned result: its error is the
\* call's, otherwise the call is served from the new buffer.
AfterFill(result, amount, hard, and_consume) ==
    IF result.res # "ok"
    THEN [PbfRes(result.f, result.res, <<>>, result.res # "panic", result.nh, FALSE)
            EXCEPT !.herr = result.herr]
    ELSE FromBuffer(result.f, amount, hard, and_consume, TRUE, result.nh)

DataHelper(f, amount, hard, and_consume) ==
    IF f.buffer = <<>> /\ f.cursor # 0
    THEN PbfRes(f, "panic", <<>>, FALSE, 0, FALSE)
    ELSE IF f.buffer = <<>> /\ ~NeedFill(f, amount)
    THEN FastPath(f, amount, hard, and_consume)
    ELSE IF NeedFill(f, amount)
    THEN AfterFill(DoFillBuffer(f, amount), amount, hard, and_consume)
    ELSE FromBuffer(f, amount, hard, and_consume, FALSE, 0)

PbfData(f, amount) == DataHelper(f, amount, FALSE, FALSE)

PbfDataHard(f, amount) == DataHelper(f, amount, TRUE, FALSE)

PbfDataConsume(f, amount) == DataHelper(f, amount, FALSE, TRUE)

PbfDataConsumeHard(f, amount) == DataHelper(f, amount, TRUE, TRUE)

\* Faulty variant: consume with a side buffer leaves the cursor where it was.
PbfConsume_NoAdvance(f, amount) ==
    IF f.buffer # <<>>
    THEN IF ~(f.cursor + amount <= Len(f.buffer[1]))
         THEN PbfRes(f, "panic", <<>>, FALSE, 0, FALSE)
         ELSE PbfRes(f, "ok",
                     SubSeq(f.buffer[1], f.cursor + 1, Len(f.buffer[1])), FALSE, 0, FALSE)
    ELSE IF ~(amount <= f.partial_body_length)
    THEN PbfRes(f, "panic", <<>>, FALSE, 0, FALSE)
    ELSE LET c == InnerConsume(f.reader, amount)
         IN  PbfRes([f EXCEPT !.partial_body_length = f.partial_body_length - amount,
                              !.reader = c.rd],
                    c.res, c.view, FALSE, 0, TRUE)

\* Faulty variant: consume with a side buffer lowers the counter as well.
PbfConsume_CountsDown(f, amount) ==
    IF f.buffer # <<>>
    THEN IF ~(f.cursor + amount <= Len(f.buffer[1]))
         THEN PbfRes(f, "panic", <<>>, FALSE, 0, FALSE)
         ELSE PbfRes([f EXCEPT !.cursor = f.cursor + amount,
                               !.partial_body_length =
                                   Max(0, f.partial_body_length - amount)],
                     "ok",
                     SubSeq(f.buffer[1], f.cursor + 1, Len(f.buffer[1])), FALSE, 0, FALSE)
    ELSE IF ~(amount <= f.partial_body_length)
    THEN PbfRes(f, "panic", <<>>, FALSE, 0, FALSE)
    ELSE LET c == InnerConsume(f.reader, amount)
         IN  PbfRes([f EXCEPT !.partial_body_length = f.partial_body_length - amount,
                              !.reader = c.rd],
                    c.res, c.view, FALSE, 0, TRUE)

\* Faulty variant: with no side buffer consume leaves the counter as it is.
PbfConsume_KeepsCounter(f, amount) ==
    IF f.buffer # <<>>
    THEN IF ~(f.cursor + amount <= Len(f.buffer[1]))
         THEN PbfRes(f, "panic", <<>>, FALSE, 0, FALSE)
         ELSE PbfRes([f EXCEPT !.cursor = f.cursor + amount], "ok",
                     SubSeq(f.buffer[1], f.cursor + 1, Len(f.buffer[1])), FALSE, 0, FALSE)
    ELSE IF ~(amount <= f.partial_body_length)
    THEN PbfRes(f, "panic", <<>>, FALSE, 0, FALSE)
    ELSE LET c == InnerConsume(f.reader, amount)
         IN  PbfRes([f EXCEPT !.reader = c.rd], c.res, c.view, FALSE, 0, TRUE)

PbfConsume(f, amount) ==
    IF f.buffer # <<>>
    THEN IF ~(f.cursor + amount <= Len(f.buffer[1]))
         THEN PbfRes(f, "panic", <<>>, FALSE, 0, FALSE)
         ELSE PbfRes([f EXCEPT !.cursor = f.cursor + amount], "ok",
                     SubSeq(f.buffer[1], f.cursor + 1, Len(f.buffer[1])), FALSE, 0, FALSE)
    ELSE IF ~(amount <= f.partial_body_length)
    THEN PbfRes(f, "panic", <<>>, FALSE, 0, FALSE)
    ELSE LET c == InnerConsume(f.reader, amount)
         IN  PbfRes([f EXCEPT !.partial_body_length = f.partial_body_length - amount,
                              !.reader = c.rd],
                    c.res, c.view, FALSE, 0, TRUE)

\* ------------------------------------------ partial body: the inner stream
\* A framing is the initial chunk followed by headers, each with its chunk:
\* Partial(len) headers, then one Full(len).  Payload bytes are 101 .. 191
\* and tell their place in the stream; bytes after the last chunk are 51 ...

PartialLens == {2 ^ k : k \in 0 .. 4} \cap (1 .. MaxChunk)

PartialHdr(len) == [kind |-> "Partial", len |-> len]

FullHdr(len) == [kind |-> "Full", len |-> len]

\* n - 1 partial chunks and the last chunk.
HdrSeqs(n) ==
    {[i \in 1 .. n |-> IF i < n THEN PartialHdr(p[i]) ELSE FullHdr(l)] :
        p \in [1 .. n - 1 -> PartialLens], l \in 0 .. MaxChunk}

Framings == UNION {HdrSeqs(n) : n \in 1 .. MaxHdrs}

HeaderBytes(h, wide) ==
    IF h.kind = "Partial" THEN <<224 + (CHOOSE k \in 0 .. 4 : 2 ^ k = h.len)>>
    ELSE IF wide THEN <<255, 0, 0, 0, h.len>>
    ELSE <<h.len>>

PayloadBytes(from, n) == [i \in 1 .. n |-> 100 + from + i]

RECURSIVE Frame(_, _, _)
Frame(acc, hdrs, wide) ==
    IF hdrs = <<>> THEN acc
    ELSE LET a1 == acc \o HeaderBytes(Head(hdrs), wide)
         IN  Frame(a1 \o PayloadBytes(Len(a1), Head(hdrs).len), Tail(hdrs), wide)

IsPayloadByte(b) == b > 100 /\ b < 192

\* The logical stream: the chunk payloads of src, in order.
Payload == SelectSeq(src, IsPayloadByte)

\* The payload bytes among the first n bytes of src.
PayloadBefore(n) == SelectSeq(SubSeq(src, 1, n), IsPayloadByte)

Streams ==
    LET whole == {[i |-> i, s |-> Frame(PayloadBytes(0, i), h, w)] :
                    i \in 0 .. MaxChunk, h \in Framings, w \in BOOLEAN}
    IN  {[initial |-> x.i, framed |-> TRUE, src |-> x.s \o [j \in 1 .. t |-> 50 + j]] :
            x \in whole, t \in 0 .. MaxTrail}
        \cup
        UNION {{[initial |-> x.i, framed |-> FALSE, src |-> SubSeq(x.s, 1, c)] :
                  c \in 0 .. Len(x.s) - 1} : x \in whole}

\* ------------------------------------------- partial body: state machine

NoLimitorState ==
    /\ limit = <<>>
    /\ limit0 = <<>>
    /\ ref = [limit |-> 0, rd |-> [pos |-> 0, buf |-> 0], res |-> "ok", view |-> <<>>]

FOp(name, a, r) ==
    [op |-> name, amount |-> a, res |-> r.res, view |-> r.view,
     filled |-> r.filled, nh |-> r.nh, direct |-> r.direct, herr |-> r.herr]

\* new(reader, partial_body_length)
PbfNew ==
    /\ \E st \in Streams :
         /\ src = st.src
         /\ initial = st.initial
         /\ framed = st.framed
    /\ reader \in {[pos |-> 0, buf |-> b] : b \in {0, Len(src)}}
    /\ partial_body_length = initial
    /\ last = FALSE
    /\ buffer = <<>>
    /\ cursor = 0
    /\ NoLimitorState
    /\ delivered = <<>>
    /\ peeked = 0
    /\ lastOp = [op |-> "new", amount |-> 0, res |-> "ok", view |-> <<>>,
                 filled |-> FALSE, nh |-> 0, direct |-> FALSE, herr |-> FALSE]
    /\ panicked = FALSE
    /\ ctb = NoCtb
    /\ fill = NoFill
    /\ conv = NoConv

PbfInit == PbfNew /\ fault = NoFault

Alive == ~panicked /\ lastOp.op # "into_inner"

PbfEffect(name, a, r, dlv, pk) ==
    /\ partial_body_length' = r.f.partial_body_length
    /\ last' = r.f.last
    /\ buffer' = r.f.buffer
    /\ cursor' = r.f.cursor
    /\ reader' = r.f.reader
    /\ delivered' = delivered \o dlv
    /\ peeked' = pk
    /\ lastOp' = FOp(name, a, r)
    /\ panicked' = (r.res = "panic")
    /\ fill' = NoFill
    /\ UNCHANGED <<src, initial, framed, limit, limit0, ref, fault, ctb, conv>>

FData(a) ==
    /\ Alive
    /\ \E r \in {PbfData(Filter, a)} :
           PbfEffect("data", a, r, <<>>, IF r.res = "ok" THEN Len(r.view) ELSE peeked)

FDataHard(a) ==
    /\ Alive
    /\ \E r \in {PbfDataHard(Filter, a)} :
           PbfEffect("data_hard", a, r, <<>>, IF r.res = "ok" THEN Len(r.view) ELSE peeked)

FConsume(a) ==
    /\ Alive
    /\ a <= peeked
    /\ \E r \in {PbfConsume(Filter, a)} :
           PbfEffect("consume", a, r,
                     IF r.res = "ok" THEN SubSeq(r.view, 1, a) ELSE <<>>, peeked - a)

FDataConsume(a) ==
    /\ Alive
    /\ \E r \in {PbfDataConsume(Filter, a)} :
           LET n == Min(a, Len(r.view))
           IN  PbfEffect("data_consume", a, r,
                         IF r.res = "ok" THEN SubSeq(r.view, 1, n) ELSE <<>>,
                         IF r.res = "ok" THEN Max(0, peeked - n) ELSE peeked)

FDataConsumeHard(a) ==
    /\ Alive
    /\ \E r \in {PbfDataConsumeHard(Filter, a)} :
           PbfEffect("data_consume_hard", a, r,
                     IF r.res = "ok" THEN SubSeq(r.view, 1, a) ELSE <<>>,
                     IF r.res = "ok" THEN Max(0, peeked - a) ELSE peeked)

\* Faulty variant: into_inner rewinds the inner reader over the bytes that are
\* pending in the side buffer.
FIntoInner_Rewind ==
    /\ Alive
    /\ lastOp' = [op |-> "into_inner", amount |-> 0, res |-> "ok", view |-> <<>>,
                  filled |-> FALSE, nh |-> 0, direct |-> FALSE, herr |-> FALSE]
    /\ peeked' = 0
    /\ reader' = IF buffer = <<>> THEN reader
                  ELSE [pos |-> reader.pos - (Len(buffer[1]) - cursor),
                        buf |-> reader.buf + (Len(buffer[1]) - cursor)]
    /\ UNCHANGED <<src, limit, limit0, ref, partial_body_length, last, buffer,
                   cursor, initial, delivered, framed, panicked, fault, ctb, fill,
                   conv>>

\* into_inner: the filter hands out its reader as it stands.
FIntoInner ==
    /\ Alive
    /\ lastOp' = [op |-> "into_inner", amount |-> 0, res |-> "ok", view |-> <<>>,
                  filled |-> FALSE, nh |-> 0, direct |-> FALSE, herr |-> FALSE]
    /\ peeked' = 0
    /\ UNCHANGED <<src, reader, limit, limit0, ref, partial_body_length, last, buffer,
                   cursor, initial, delivered, framed, panicked, fault, ctb, fill,
                   conv>>

PbfNext ==
    \/ \E a \in Amounts : FData(a)
    \/ \E a \in Amounts : FDataHard(a)
    \/ \E a \in Amounts : FConsume(a)
    \/ \E a \in Amounts : FDataConsume(a)
    \/ \E a \in Amounts : FDataConsumeHard(a)
    \/ FIntoInner

SpecPartialBody == PbfInit /\ [][PbfNext]_vars

\* The partial body filter over a source that fails, or with a length-header
\* parser that returns Indeterminate.  The inner reader reads its source on
\* demand.
IsHeaderStart(p) ==
    \/ src[p + 1] >= 224
    \/ src[p + 1] <= 50 /\ (p = 0 \/ IsPayloadByte(src[p]))

Faults ==
    {[kind |-> "io", at |-> p] : p \in 0 .. Len(src)}
    \cup {[kind |-> "indeterminate", at |-> p] :
             p \in {q \in 0 .. Len(src) - 1 : IsHeaderStart(q)}}

PbfFaultInit == PbfNew /\ framed /\ reader.buf = 0 /\ fault \in Faults

SpecPartialBodyFault == PbfFaultInit /\ [][PbfNext]_vars

\* ===================================================== claims: the limitor

\* The budget the outermost limitor of the stack was constructed with.
OuterLimit0 == limit0[Len(limit0)]

\* C1: the bytes delivered through Limitor(inner, L), by consuming or by read,
\* never number more than L.
C1_DeliveredWithinLimit ==
    (limit0 # <<>> /\ Unpeeled) => Len(delivered) <= OuterLimit0

\* C2: two nested limitors return, call after call, the same outcome, the same
\* view and the same position of the inner reader as one limitor with the
\* smaller of the two budgets, and leave the same budget.
C2_NestedAsTightest ==
    (Len(limit0) = 2 /\ Unpeeled) =>
        /\ lastOp.res = ref.res
        /\ lastOp.view = ref.view
        /\ reader = ref.rd
        /\ (~panicked => MinOf(limit) = ref.limit)

\* C2 witness: budget 1 under budget 2 over a longer source; the bytes up to
\* the tighter budget were consumed and data(1) came back empty.
C2_Witness ==
    /\ Len(limit0) = 2 /\ Unpeeled
    /\ limit0[1] < limit0[2] /\ limit0[2] < Len(src) /\ limit0[1] > 0
    /\ Len(delivered) = limit0[1]
    /\ lastOp.op = "data" /\ lastOp.amount = 1 /\ lastOp.view = <<>>

\* The source bytes that follow the delivered ones.
SrcRest == SubSeq(src, Len(delivered) + 1, Len(src))

\* C5: when a limitor is peeled, the reader it hands out stands right after
\* the bytes consumed through it: what it yields next are the source bytes
\* that follow them.
C5_PeelAfterConsumed ==
    (limit0 # <<>> /\ lastOp.op = "into_inner") =>
        /\ reader.pos = Len(delivered)
        /\ delivered = SubSeq(src, 1, Len(delivered))
        /\ \A k \in Amounts :
             LET d == StackData(Depth, limit, reader, k)
             IN  /\ d.res = "ok"
                 /\ IsPrefix(d.view, SrcRest)
                 /\ (Depth = 0 => Len(d.view) >= Min(k, Len(SrcRest)))

\* C5 witness: two nested limitors peeled one after the other, some bytes
\* consumed before and some left in the source.
C5_Witness ==
    /\ Len(limit0) = 2 /\ Depth = 0 /\ lastOp.op = "into_inner"
    /\ Len(delivered) > 0 /\ Len(delivered) < Len(src)
    /\ Len(delivered) = limit0[1]

\* ==================================================== both filters at once

IsLimitor == limit0 # <<>>

Init == LimInit \/ PbfInit

Next ==
    \/ IsLimitor /\ LimNext
    \/ ~IsLimitor /\ PbfNext

Spec == Init /\ [][Next]_vars

\* ========================================== claims: the partial body filter

\* Bytes pulled into the side buffer and not yet consumed.
Pending == IF buffer = <<>> THEN 0 ELSE Len(buffer[1]) - cursor

\* The payload bytes the caller has not consumed yet.
Rest == SubSeq(Payload, Len(delivered) + 1, Len(Payload))

\* Where the framing ends in src: before the bytes that follow the last chunk.
FrameEnd == Len(src) - Len(SelectSeq(src, LAMBDA b : b < 100 /\ b > 50))

\* C3: on a framed stream the bytes delivered to the caller are, in order, the
\* chunk payloads: a prefix of their concatenation at every moment.
C3_Concatenation == framed => IsPrefix(delivered, Payload)

\* C3 witness: a framing with two headers was delivered whole, one call having
\* crossed a chunk boundary.
C3_Witness ==
    /\ framed /\ delivered = Payload /\ Len(Payload) >= 3
    /\ lastOp.nh >= 2 /\ lastOp.op = "data_consume" /\ Len(lastOp.view) >= 3

\* C4: a data_consume(a) made with counter >= a and nothing pending in a side
\* buffer allocates no side buffer.
C4_ZeroCopy ==
    (framed /\ Alive) => \A a \in Amounts :
        (a <= partial_body_length /\ Pending = 0) =>
            ~PbfDataConsume(Filter, a).filled

\* The filter's calls that take an amount, by name.
PbfCall(name, f, a) ==
    CASE name = "data" -> PbfData(f, a)
      [] name = "data_hard" -> PbfDataHard(f, a)
      [] name = "consume" -> PbfConsume(f, a)
      [] name = "data_consume" -> PbfDataConsume(f, a)
      [] name = "data_consume_hard" -> PbfDataConsumeHard(f, a)

PbfCalls == {"data", "data_hard", "consume", "data_consume", "data_consume_hard"}

\* C6: with no side buffer the inner reader stands exactly after the consumed
\* payload (no header has been parsed) and the counter is what is left of the
\* chunk; no call moves the inner reader past the end of the current chunk
\* without parsing the header there, nor ever past the end of the framing; and
\* a peel hands out the inner reader right after the consumed bytes.
C6_CounterTracksInner ==
    ~IsLimitor =>
        /\ (buffer = <<>> =>
              /\ reader.pos = Len(delivered)
              /\ partial_body_length = initial - Len(delivered)
              /\ delivered = SubSeq(src, 1, Len(delivered)))
        /\ (framed => reader.pos <= FrameEnd)
        /\ (Alive => \A name \in PbfCalls, a \in Amounts :
              (name = "consume" => a <= peeked) =>
                 LET r == PbfCall(name, Filter, a)
                 IN  (r.res # "panic" /\ r.nh = 0) =>
                        r.f.reader.pos <= reader.pos + partial_body_length)

\* C6 witness: the filter was peeled with no side buffer after the caller
\* consumed part of the first chunk.
C6_Witness ==
    /\ ~IsLimitor /\ lastOp.op = "into_inner" /\ buffer = <<>>
    /\ Len(delivered) > 0 /\ partial_body_length > 0 /\ framed

\* =============================================== claims: both filters alike

\* The logical stream left under a limitor stack: the source bytes after the
\* inner reader's position, as far as every budget of the stack reaches.
LimRest ==
    LET n == IF limit = <<>> THEN Remaining(reader)
             ELSE Min(MinOf(limit), Remaining(reader))
    IN  InnerView(reader, n)

\* C7: data(a) directly followed by data(b), a >= b, returns a prefix of what
\* data(a) returned.
C7_PeekStability ==
    /\ (IsLimitor /\ ~panicked) => \A a \in Amounts, b \in Amounts :
          LET x == StackData(Depth, limit, reader, a)
              y == StackData(Depth, x.lims, x.rd, b)
          IN  (b <= a /\ x.res = "ok") => (y.res = "ok" /\ IsPrefix(y.view, x.view))
    /\ (~IsLimitor /\ Alive) => \A a \in Amounts, b \in Amounts :
          LET x == PbfData(Filter, a)
              y == PbfData(x.f, b)
          IN  (b <= a /\ x.res = "ok") => (y.res = "ok" /\ IsPrefix(y.view, x.view))

\* C7 witness: data(a) has just filled the side buffer across a chunk
\* boundary, and a smaller data(b) is served from it.
C7_Witness ==
    /\ ~IsLimitor /\ Alive
    /\ lastOp.op = "data" /\ lastOp.filled /\ lastOp.nh >= 1 /\ lastOp.res = "ok"
    /\ Len(lastOp.view) = lastOp.amount /\ lastOp.amount >= 2
    /\ Len(delivered) > 0
    /\ PbfData(Filter, 1).view = lastOp.view /\ ~PbfData(Filter, 1).filled

\* What consume fidelity asks of x = data(a), c = consume(a), z = data(1),
\* rest being the logical stream before the calls.
Fidelity(a, x, c, z, rest) ==
    (x.res = "ok" /\ Len(x.view) >= a) =>
        /\ c.res = "ok"
        /\ SubSeq(c.view, 1, a) = SubSeq(rest, 1, a)
        /\ z.res = "ok"
        /\ IF Len(rest) > a
           THEN z.view # <<>> /\ z.view[1] = rest[a + 1]
           ELSE z.view = <<>>
        /\ (Len(x.view) > a => (z.view # <<>> /\ z.view[1] = x.view[a + 1]))

\* C8 as claimed: consume fidelity on every stream, cut short or not.
C8_ConsumeFidelity ==
    /\ (IsLimitor /\ ~panicked) => \A a \in Amounts :
          LET x == StackData(Depth, limit, reader, a)
              c == StackConsume(Depth, x.lims, x.rd, a)
              z == StackData(Depth, c.lims, c.rd, 1)
          IN  Fidelity(a, x, c, z, LimRest)
    /\ (~IsLimitor /\ Alive) => \A a \in Amounts :
          LET x == PbfData(Filter, a)
              c == PbfConsume(x.f, a)
              z == PbfData(c.f, 1)
          IN  Fidelity(a, x, c, z, Rest)

\* C8 amended: consume fidelity, except that the data(1) after the consume
\* fails with the header parser's error when the inner stream of a partial
\* body filter is cut short exactly where the next length header is due.
C8_ConsumeFidelityUnlessCut ==
    /\ (IsLimitor /\ ~panicked) => \A a \in Amounts :
          LET x == StackData(Depth, limit, reader, a)
              c == StackConsume(Depth, x.lims, x.rd, a)
              z == StackData(Depth, c.lims, c.rd, 1)
          IN  Fidelity(a, x, c, z, LimRest)
    /\ (~IsLimitor /\ Alive) => \A a \in Amounts :
          LET x == PbfData(Filter, a)
              c == PbfConsume(x.f, a)
              z == PbfData(c.f, 1)
          IN  IF x.res = "ok" /\ Len(x.view) >= a /\ c.res = "ok" /\ z.res # "ok"
              THEN /\ z.herr /\ z.res = "eof" /\ ~framed /\ Len(Rest) = a
                   /\ SubSeq(c.view, 1, a) = SubSeq(Rest, 1, a)
              ELSE Fidelity(a, x, c, z, Rest)

\* C8 witness: a partial body filter whose data(a) returned more than a bytes;
\* a bytes were consumed and data(1) now starts at the byte after them.
C8_Witness ==
    /\ ~IsLimitor /\ Alive /\ framed
    /\ lastOp.op = "consume" /\ lastOp.amount >= 1 /\ lastOp.res = "ok"
    /\ Len(lastOp.view) > lastOp.amount
    /\ PbfData(Filter, 1).res = "ok" /\ PbfData(Filter, 1).view # <<>>
    /\ PbfData(Filter, 1).view[1] = lastOp.view[lastOp.amount + 1]

\* C9 witness: data(k) came back short at the end of the last chunk, after a
\* refill of the side buffer.
C9_Witness ==
    /\ ~IsLimitor /\ Alive /\ framed /\ last
    /\ lastOp.op = "data" /\ lastOp.res = "ok" /\ lastOp.filled
    /\ Len(lastOp.view) < lastOp.amount /\ lastOp.view # <<>>
    /\ PbfData(Filter, lastOp.amount).view = lastOp.view

\* C9: once data(k) has returned fewer than k bytes, the next data(k) returns
\* the same bytes, and no error.
C9_IdempotentEnd ==
    (~panicked /\ lastOp.op = "data" /\ lastOp.res = "ok"
       /\ Len(lastOp.view) < lastOp.amount) =>
        IF IsLimitor
        THEN LET y == StackData(Depth, limit, reader, lastOp.amount)
             IN  y.res = "ok" /\ y.view = lastOp.view
        ELSE LET y == PbfData(Filter, lastOp.amount)
             IN  y.res = "ok" /\ y.view = lastOp.view

\* C10 as claimed: data(amount) never fails for want of inner bytes, and
\* returns amount bytes or more, or else every payload byte that is left.
C10_DataNeverFails ==
    (~IsLimitor /\ Alive) => \A a \in Amounts :
        LET x == PbfData(Filter, a)
        IN  x.res = "ok" /\ (Len(x.view) >= a \/ x.view = Rest)

\* C10 amended: data(amount) fails only with the header parser's error, on a
\* stream that is cut short (never on a complete framing); when it succeeds it
\* returns amount bytes or more, or else every payload byte that is left.
C10_DataFailsOnlyOnHeader ==
    (~IsLimitor /\ Alive) => \A a \in Amounts :
        LET x == PbfData(Filter, a)
        IN  IF x.res = "ok"
            THEN IsPrefix(x.view, Rest) /\ (Len(x.view) >= a \/ x.view = Rest)
            ELSE x.herr /\ ~framed /\ x.res = "eof"

\* C10 witness: data(amount) crossed a chunk boundary on a complete framing
\* and returned the amount in one view.
C10_Witness ==
    /\ ~IsLimitor /\ framed /\ lastOp.op = "data" /\ lastOp.res = "ok"
    /\ lastOp.nh >= 1 /\ Len(lastOp.view) = lastOp.amount /\ lastOp.amount >= 2
    /\ lastOp.view = SubSeq(Rest, 1, lastOp.amount)

\* ================================== claims: the partial body filter, calls

\* The side-buffer bytes of filter f that are not consumed yet.
PendingOf(f) ==
    IF f.buffer = <<>> THEN <<>> ELSE SubSeq(f.buffer[1], f.cursor + 1, Len(f.buffer[1]))

\* Filters f and g hold the same counter, flag, pending bytes and inner position.
SameFilter(f, g) ==
    /\ f.partial_body_length = g.partial_body_length
    /\ f.last = g.last
    /\ PendingOf(f) = PendingOf(g)
    /\ f.reader.pos = g.reader.pos

\* C11: data_consume(amount) consumes the same bytes and leaves the same
\* counter, last-chunk flag, pending side-buffer bytes and inner position as
\* v = data(amount), n = min(amount, len(v)), consume(n); when data fails,
\* data_consume fails alike.
C11_DataConsumeAsDataThenConsume ==
    (~IsLimitor /\ Alive) => \A a \in Amounts :
        LET dc == PbfDataConsume(Filter, a)
            v == PbfData(Filter, a)
            n == Min(a, Len(v.view))
            c == PbfConsume(v.f, n)
        IN  IF v.res # "ok"
            THEN dc.res = v.res /\ SameFilter(dc.f, v.f)
            ELSE /\ dc.res = "ok" /\ c.res = "ok"
                 /\ SubSeq(dc.view, 1, n) = SubSeq(c.view, 1, n)
                 /\ Len(dc.view) >= n
                 /\ SameFilter(dc.f, c.f)

\* C11 witness: a data_consume on the fast path consumed part of the first
\* chunk, and the next data_consume has to cross the chunk boundary.
C11_Witness ==
    /\ ~IsLimitor /\ Alive /\ framed
    /\ lastOp.op = "data_consume" /\ lastOp.direct /\ lastOp.res = "ok"
    /\ lastOp.amount >= 1 /\ Len(delivered) = lastOp.amount
    /\ partial_body_length >= 1
    /\ PbfDataConsume(Filter, MaxAmount).nh >= 1
    /\ Len(PbfDataConsume(Filter, MaxAmount).view) >= 2

\* ================================================ claims: the limitor, calls

\* The calls of the limitor stack that take an amount, by name.
LimCall(name, a) ==
    CASE name = "data" -> StackData(Depth, limit, reader, a)
      [] name = "consume" -> StackConsume(Depth, limit, reader, a)
      [] name = "data_consume" -> StackDataConsume(Depth, limit, reader, a)
      [] name = "data_consume_hard" -> StackDataConsumeHard(Depth, limit, reader, a)

LimConsuming == {"consume", "data_consume", "data_consume_hard"}

LimCalls == {"data"} \cup LimConsuming

\* The calls a caller may make now: consume only of bytes it has seen.
LimMay(name, a) == name = "consume" => a <= peeked

\* C12: no call raises the budget of a limitor; a consuming call that succeeds
\* lowers it by the number of bytes the call consumed from the stream; data
\* and failed calls leave it as it is.
C12_BudgetTracksConsumed ==
    (IsLimitor /\ ~panicked) => \A name \in LimCalls, a \in Amounts :
        LimMay(name, a) =>
            LET r == LimCall(name, a)
            IN  r.res # "panic" => \A k \in 1 .. Depth :
                    /\ r.lims[k] <= limit[k]
                    /\ IF name \in LimConsuming /\ r.res = "ok"
                       THEN limit[k] - r.lims[k] = r.rd.pos - reader.pos
                       ELSE r.lims[k] = limit[k]

\* C13: data_consume_hard(a) beyond the budget fails with end-of-file and
\* touches neither the budget nor the inner reader; within the budget it is
\* the inner data_consume_hard(a), the budget falling by a when that succeeds
\* and staying when it fails.
C13_HardWithinBudget ==
    (IsLimitor /\ ~panicked /\ Depth >= 1) => \A a \in Amounts :
        LET r == StackDataConsumeHard(Depth, limit, reader, a)
            inner == StackDataConsumeHard(Depth - 1, limit, reader, a)
        IN  IF a > limit[Depth]
            THEN r.res = "eof" /\ r.lims = limit /\ r.rd = reader
            ELSE /\ r.res = inner.res /\ r.rd = inner.rd
                 /\ \A k \in 1 .. Depth - 1 : r.lims[k] = inner.lims[k]
                 /\ IF inner.res = "ok"
                    THEN r.lims[Depth] = limit[Depth] - a /\ r.rd.pos = reader.pos + a
                    ELSE r.lims[Depth] = limit[Depth] /\ r.view = inner.view

\* C13 witness: data_consume_hard asked for more than the budget while the
\* source held the bytes: end-of-file, and the inner reader buffered nothing.
C13_Witness ==
    /\ IsLimitor /\ Unpeeled /\ Depth = 1
    /\ lastOp.op = "data_consume_hard" /\ lastOp.res = "eof"
    /\ lastOp.amount > limit[Depth] /\ limit[Depth] > 0
    /\ lastOp.amount <= Remaining(reader) /\ reader.buf < lastOp.amount

\* The hard calls of the partial body filter.
PbfHardCalls == {"data_hard", "data_consume_hard"}

\* C14: data_hard(amount) and data_consume_hard(amount) fail with unexpected
\* end-of-file exactly when fewer than amount payload bytes are left in the
\* logical stream; otherwise they succeed with a view of amount bytes or more.
C14_HardFailsIffShort ==
    (~IsLimitor /\ Alive) => \A name \in PbfHardCalls, a \in Amounts :
        LET r == PbfCall(name, Filter, a)
        IN  IF Len(Rest) < a
            THEN r.res = "eof"
            ELSE /\ r.res = "ok"
                 /\ Len(r.view) >= a
                 /\ SubSeq(r.view, 1, a) = SubSeq(Rest, 1, a)

\* C14 witness: on a complete framing data_consume_hard crossed into the last
\* chunk, found fewer payload bytes than asked, some being left, and failed.
C14_Witness ==
    /\ ~IsLimitor /\ Alive /\ framed /\ last
    /\ lastOp.op = "data_consume_hard" /\ lastOp.res = "eof" /\ ~lastOp.herr
    /\ lastOp.nh >= 1 /\ lastOp.amount > Len(Rest) /\ Len(Rest) >= 2

\* The first n bytes of view s, or all of s when it is shorter.
Take(s, n) == SubSeq(s, 1, Min(n, Len(s)))

\* C15: a data_hard / data_consume_hard that fails with end-of-file has
\* consumed nothing: where data(k) in its place would have returned bytes, the
\* data(k) after it returns the same next k payload bytes; in no case does it
\* return anything but the payload that is left.
C15_FailedHardConsumesNothing ==
    (~IsLimitor /\ Alive) => \A name \in PbfHardCalls, a \in Amounts, k \in Amounts :
        LET r == PbfCall(name, Filter, a)
            x == PbfData(Filter, k)
            y == PbfData(r.f, k)
        IN  r.res = "eof" =>
                /\ y.res # "panic"
                /\ (y.res = "ok" => IsPrefix(y.view, Rest))
                /\ (x.res = "ok" =>
                      /\ y.res = "ok"
                      /\ Take(y.view, k) = Take(x.view, k)
                      /\ (Len(y.view) >= k \/ y.view = Rest))

\* C15 witness: the inner stream ends inside a chunk; data_consume_hard asked
\* for more than is left and failed, and data(k) still returns the bytes left.
C15_Witness ==
    /\ ~IsLimitor /\ Alive /\ ~framed /\ partial_body_length > 0
    /\ lastOp.op = "data_consume_hard" /\ lastOp.res = "eof" /\ ~lastOp.herr
    /\ Len(Rest) >= 2 /\ lastOp.amount > Len(Rest)
    /\ PbfData(Filter, Len(Rest)).res = "ok"
    /\ PbfData(Filter, Len(Rest)).view = Rest

\* The call `name` on level k of a limitor stack (level 0 is the inner reader).
StackCall(name, k, lims, rd, a) ==
    CASE name = "data" -> StackData(k, lims, rd, a)
      [] name = "consume" -> StackConsume(k, lims, rd, a)
      [] name = "data_consume" -> StackDataConsume(k, lims, rd, a)
      [] name = "data_consume_hard" -> StackDataConsumeHard(k, lims, rd, a)

\* What the outermost limitor hands to its reader for a request of a.
Clipped(name, a) ==
    IF name \in {"data", "data_consume"} THEN Min(a, limit[Depth]) ELSE a

\* C16: a consuming call of a limitor that succeeds returns the view of its
\* reader cut to the budget held before the call: the bytes just consumed come
\* first, and no more lookahead follows them than the budget that is left.
C16_ConsumeViewClipped ==
    (IsLimitor /\ ~panicked /\ Depth >= 1) => \A name \in LimConsuming, a \in Amounts :
        LimMay(name, a) =>
            LET r == LimCall(name, a)
                inner == StackCall(name, Depth - 1, limit, reader, Clipped(name, a))
                n == r.rd.pos - reader.pos
            IN  r.res = "ok" =>
                    /\ inner.res = "ok"
                    /\ r.view = Take(inner.view, limit[Depth])
                    /\ Len(r.view) >= n
                    /\ Take(r.view, n) = InnerView(reader, n)
                    /\ Len(r.view) - n <= r.lims[Depth]

\* C16 witness: consume(a) on one limitor whose reader had buffered more than
\* the budget: the view is the a bytes and the lookahead the budget allows.
C16_Witness ==
    /\ IsLimitor /\ Unpeeled /\ Depth = 1
    /\ lastOp.op = "consume" /\ lastOp.res = "ok" /\ lastOp.amount >= 1
    /\ limit[1] >= 1 /\ Len(lastOp.view) = limit[1] + lastOp.amount
    /\ reader.buf > limit[1]

\* C17: data(a) of a limitor is its reader's data(min(a, budget)) with the
\* view cut to the budget; no budget changes; with budget 0 the view is empty.
C17_DataWithinBudget ==
    (IsLimitor /\ ~panicked /\ Depth >= 1) => \A a \in Amounts :
        LET r == StackData(Depth, limit, reader, a)
            inner == StackData(Depth - 1, limit, reader, Min(a, limit[Depth]))
        IN  /\ r.res = "ok" /\ inner.res = "ok"
            /\ r.rd = inner.rd
            /\ r.view = Take(inner.view, limit[Depth])
            /\ Len(r.view) <= limit[Depth]
            /\ r.lims = limit
            /\ (limit[Depth] = 0 => r.view = <<>>)

\* C17 witness: the whole budget of one limitor was consumed, the source
\* holds more bytes, and data(1) returned the empty view.
C17_Witness ==
    /\ IsLimitor /\ Unpeeled /\ Depth = 1
    /\ limit0[1] >= 2 /\ limit[1] = 0 /\ Len(delivered) = limit0[1]
    /\ Remaining(reader) >= 1
    /\ lastOp.op = "data" /\ lastOp.amount = 1 /\ lastOp.res = "ok" /\ lastOp.view = <<>>

\* An inner call that failed with an I/O error, having left the reader as
\* result r describes it.
IoFailed(r) == [r EXCEPT !.res = "io", !.view = <<>>]

\* C18: data_consume(a) of a limitor is its reader's data_consume(min(a,
\* budget)); when that succeeds the budget falls by the clipped amount; when
\* it fails the budget stays and the error is handed on as it is.
C18_DataConsumeClipped ==
    (IsLimitor /\ ~panicked /\ Depth >= 1) => \A a \in Amounts :
        LET amt == Min(a, limit[Depth])
            r == StackDataConsume(Depth, limit, reader, a)
            inner == StackDataConsume(Depth - 1, limit, reader, amt)
        IN  /\ r.res = inner.res /\ r.rd = inner.rd
            /\ \A k \in 1 .. Depth - 1 : r.lims[k] = inner.lims[k]
            /\ (inner.res = "ok" => r.lims[Depth] = limit[Depth] - amt)
            /\ inner.lims[Depth] = limit[Depth]
            /\ LimitorDataConsumeDone(Depth, amt, IoFailed(inner)) = IoFailed(inner)

\* C18 witness: data_consume asked one limitor for more than its budget over
\* a longer source: the budget's worth was consumed and the budget is 0.
C18_Witness ==
    /\ IsLimitor /\ Unpeeled /\ Depth = 1
    /\ lastOp.op = "data_consume" /\ lastOp.res = "ok"
    /\ lastOp.amount > limit0[1] /\ limit0[1] >= 1
    /\ Len(delivered) = limit0[1] /\ limit[1] = 0
    /\ Remaining(reader) >= 1 /\ Len(lastOp.view) = limit0[1]

\* What the calls made after the last chunk's header do, from the state at hand:
\* the flag stays, no header is parsed, and at the end of the last chunk data
\* and data_consume return the empty view and the hard calls with amount >= 1
\* end-of-file.
AfterLast ==
    (~IsLimitor /\ Alive /\ last) => \A name \in PbfCalls, a \in Amounts :
        (name = "consume" => a <= peeked) =>
            LET r == PbfCall(name, Filter, a)
            IN  /\ r.f.last /\ r.nh = 0
                /\ (partial_body_length = 0 /\ Pending = 0) =>
                      /\ (name \in {"data", "data_consume"} =>
                             r.res = "ok" /\ r.view = <<>>)
                      /\ ((name \in PbfHardCalls /\ a >= 1) => r.res = "eof")

\* C19: once the last-chunk flag is set no step clears it and no step parses
\* a length header; and at the end of the last chunk every data / data_consume
\* returns the empty view, every hard call with amount >= 1 end-of-file.
C19_LastIsFinal ==
    /\ [][last => (last' /\ lastOp'.nh = 0)]_vars
    /\ []AfterLast

\* C19 witness: the whole payload was consumed, bytes follow the last chunk in
\* the inner stream, and data(a), a >= 1, returned the empty view.
C19_Witness ==
    /\ ~IsLimitor /\ Alive /\ framed /\ last
    /\ partial_body_length = 0 /\ Pending = 0
    /\ delivered = Payload /\ Len(Payload) >= 2
    /\ Remaining(reader) >= 1
    /\ lastOp.op = "data" /\ lastOp.amount >= 1 /\ lastOp.res = "ok" /\ lastOp.view = <<>>

\* ============================================ claims: both filters, consume

\* How far the inner reader has read into the source.
SourceRead(rd) == rd.pos + rd.buf

\* C20: consume(n) right after a data / data_hard that returned n bytes or
\* more trips no assertion, fails in no way, and reads nothing from the source.
C20_ConsumeAfterDataIsSafe ==
    /\ (IsLimitor /\ ~panicked) => \A a \in Amounts :
          LET x == StackData(Depth, limit, reader, a)
          IN  x.res = "ok" => \A n \in 0 .. Len(x.view) :
                  LET c == StackConsume(Depth, x.lims, x.rd, n)
                  IN  /\ c.res = "ok"
                      /\ SourceRead(c.rd) = SourceRead(x.rd)
                      /\ c.rd.pos = x.rd.pos + n
    /\ (~IsLimitor /\ Alive) => \A name \in {"data", "data_hard"}, a \in Amounts :
          LET x == PbfCall(name, Filter, a)
          IN  x.res = "ok" => \A n \in 0 .. Len(x.view) :
                  LET c == PbfConsume(x.f, n)
                  IN  /\ c.res = "ok"
                      /\ SourceRead(c.f.reader) = SourceRead(x.f.reader)
                      /\ Take(c.view, n) = Take(x.view, n)

\* C20 witness: with no side buffer, the bytes a data call showed up to the
\* end of the chunk were consumed in one consume.
C20_Witness ==
    /\ ~IsLimitor /\ Alive /\ framed /\ buffer = <<>>
    /\ lastOp.op = "consume" /\ lastOp.res = "ok" /\ lastOp.amount >= 2
    /\ partial_body_length = 0 /\ Len(delivered) = initial
    /\ Remaining(reader) >= 1

\* ===================================================== claims: no abort

\* The outcomes a call may have short of aborting the process.
Survived == {"ok", "eof"}

\* C21: whatever the inner stream (complete, or cut at any byte) and whatever
\* the caller does within consume's precondition, no call of a limitor or of
\* a partial body filter trips an assertion or slices out of range, and no
\* counter or budget falls below 0: a call returns a view, short or not, or
\* unexpected end-of-file.
C21_NoAbort ==
    /\ ~panicked
    /\ lastOp.res \in Survived
    /\ partial_body_length >= 0
    /\ cursor >= 0 /\ (buffer # <<>> => cursor <= Len(buffer[1]))
    /\ \A k \in 1 .. Depth : limit[k] >= 0 /\ limit[k] <= limit0[k]
    /\ (IsLimitor =>
          \A name \in LimCalls, a \in Amounts :
              LimMay(name, a) => LimCall(name, a).res \in Survived)
    /\ ((~IsLimitor /\ Alive) =>
          \A name \in PbfCalls, a \in Amounts :
              (name = "consume" => a <= peeked) =>
                  PbfCall(name, Filter, a).res \in Survived)

\* C21 witness: the inner stream ends inside a chunk that follows a parsed
\* header; data came back short of the amount, the counter still above 0.
C21_Witness ==
    /\ ~IsLimitor /\ Alive /\ ~framed
    /\ lastOp.op = "data" /\ lastOp.res = "ok" /\ lastOp.nh >= 1
    /\ Len(lastOp.view) < lastOp.amount /\ lastOp.view # <<>>
    /\ partial_body_length > 0 /\ Remaining(reader) = 0

\* =========================== claims: the partial body filter, length headers

\* The calls of the partial body filter that ask for data.
PbfDataCalls == PbfCalls \ {"consume"}

\* Where the next length header stands in the inner stream.
NextHeader == reader.pos + partial_body_length

\* C22: a call whose fill comes to a length header for which the parser
\* returns Indeterminate aborts the process: it returns neither a view nor an
\* error, and no call returns with the inner reader beyond that header.  With
\* such a parser the process aborts for no other reason, and after the abort
\* nothing runs.
C22_IndeterminateAborts ==
    /\ ((panicked /\ fault.kind = "indeterminate") =>
          /\ lastOp.op \in PbfDataCalls /\ lastOp.res = "panic" /\ lastOp.nh >= 1
          /\ ~ENABLED PbfNext)
    /\ ((~IsLimitor /\ Alive /\ fault.kind = "indeterminate") =>
          \A name \in PbfDataCalls, a \in Amounts :
              LET r == PbfCall(name, Filter, a)
              IN  /\ (~last /\ fault.at = NextHeader
                        /\ a > Pending + partial_body_length) => r.res = "panic"
                  /\ r.res # "panic" => r.f.reader.pos <= fault.at)

\* C22 witness: one data_consume parsed a Partial header, pulled its chunk and
\* came to a second header, for which the parser returned Indeterminate.
C22_Witness ==
    /\ panicked /\ fault.kind = "indeterminate" /\ fault.at > 0
    /\ lastOp.op = "data_consume" /\ lastOp.res = "panic" /\ lastOp.nh = 2

\* ======================================================= claims: the old CTB

\* The body lengths handed to CTBOld::new: full lengths about the bounds of
\* the one-, two- and four-octet encodings, partial lengths, and
\* Indeterminate.
BodyLengths ==
    {FullHdr(l) : l \in {0, 1, 255, 256, 257, 65535, 65536, 2147483647}}
    \cup {PartialHdr(l) : l \in {1, 256, 2 ^ 30}}
    \cup {[kind |-> "Indeterminate", len |-> 0]}

Tags == 0 .. MaxTag

CtbInit ==
    /\ src = <<>>
    /\ reader = [pos |-> 0, buf |-> 0]
    /\ NoLimitorState
    /\ NoFilterState
    /\ delivered = <<>>
    /\ peeked = 0
    /\ lastOp = [op |-> "new", amount |-> 0, res |-> "ok", view |-> <<>>]
    /\ panicked = FALSE
    /\ fault = NoFault
    /\ ctb = NoCtb
    /\ fill = NoFill
    /\ conv = NoConv

NewCTBOld(tag, length) ==
    /\ ctb' = [called |-> TRUE, tag |-> tag, length |-> length,
               result |-> CTBOldNew(tag, length)]
    /\ UNCHANGED <<src, reader, limit, limit0, ref, partial_body_length, last, buffer,
                   cursor, initial, delivered, peeked, lastOp, framed, panicked, fault,
                   fill, conv>>

CtbNext == \E tag \in Tags, length \in BodyLengths : NewCTBOld(tag, length)

SpecCtb == CtbInit /\ [][CtbNext]_vars

\* C23: CTBOld::new(tag, length) fails with InvalidArgument exactly when the
\* tag's number is above 15 or the length is Partial; otherwise it keeps the
\* tag, and the length type is OneOctet for Full(l), l <= 0xFF, TwoOctets for
\* 0x100 <= l <= 0xFFFF, FourOctets for a larger l, and Indeterminate for
\* Indeterminate.
C23_CtbOldNew ==
    ctb.called =>
        LET l == ctb.length
            r == ctb.result
        IN  /\ r.res \in {"ok", "InvalidArgument"}
            /\ r.res = "InvalidArgument" <=> (ctb.tag > 15 \/ l.kind = "Partial")
            /\ r.res = "ok" =>
                  /\ r.tag = ctb.tag
                  /\ l.kind = "Indeterminate" => r.length_type = "Indeterminate"
                  /\ (l.kind = "Full" /\ l.len <= 255) => r.length_type = "OneOctet"
                  /\ (l.kind = "Full" /\ l.len >= 256 /\ l.len <= 65535) =>
                        r.length_type = "TwoOctets"
                  /\ (l.kind = "Full" /\ l.len > 65535) => r.length_type = "FourOctets"

\* C23 witness: tag 15 with the largest two-octet length is accepted.
C23_Witness ==
    /\ ctb.called /\ ctb.tag = 15 /\ ctb.length = FullHdr(65535)
    /\ ctb.result = CtbOk(15, "TwoOctets")

\* What the length-header parser returns for the n-th header from offset p of
\* the inner stream on, each chunk being as long as its header says.
RECURSIVE NthHeader(_, _)
NthHeader(p, n) ==
    LET h == BodyLengthNewFormat([pos |-> p, buf |-> 0])
    IN  IF n = 1 \/ h.res # "ok" THEN h ELSE NthHeader(h.rd.pos + h.len, n - 1)

\* C24: a call parses a length header only if the flag is false and the
\* request exceeds the pending bytes and what is left of the chunk, so that
\* the counter has come to 0 (and it does then, unless the inner stream ends
\* before); the assertion never fails.  After the last header the call
\* parsed, the counter is the length it announces less the bytes since pulled
\* from its chunk, and the flag is true for Full, false for Partial; every
\* header before it was Partial.  When the parser fails, counter and flag
\* stay 0 and false.
C24_HeaderWhenDue ==
    (~IsLimitor /\ Alive) => \A name \in PbfDataCalls, a \in Amounts :
        LET r == PbfCall(name, Filter, a)
            due == ~last /\ a > Pending + partial_body_length
            h == NthHeader(NextHeader, r.nh)
        IN  /\ r.res # "panic"
            /\ r.nh >= 1 => due
            /\ (due /\ Remaining(reader) >= partial_body_length) => r.nh >= 1
            /\ r.nh = 0 =>
                  /\ r.f.last = last
                  /\ r.f.partial_body_length
                        = partial_body_length - (r.f.reader.pos - reader.pos)
            /\ r.nh >= 1 =>
                  /\ \A k \in 1 .. r.nh - 1 : NthHeader(NextHeader, k).kind = "Partial"
                  /\ IF h.res = "ok"
                     THEN /\ r.f.last = (h.kind = "Full")
                          /\ h.kind = "Partial" => ~r.f.last
                          /\ r.f.partial_body_length + (r.f.reader.pos - h.rd.pos) = h.len
                     ELSE /\ r.res = h.res
                          /\ r.f.partial_body_length = 0 /\ ~r.f.last

\* C24 witness: a data call crossed the end of the first chunk and parsed a
\* Partial header; the flag is false and the counter is what the header
\* announced less the byte pulled from the new chunk.
C24_Witness ==
    /\ ~IsLimitor /\ Alive /\ framed /\ ~last
    /\ lastOp.op = "data" /\ lastOp.res = "ok" /\ lastOp.nh = 1
    /\ initial >= 1 /\ Len(lastOp.view) = initial + 1
    /\ partial_body_length = 1

\* ================================ claims: the partial body filter, failures

\* The payload bytes of the inner stream from offset p up to offset q.
PayloadBetween(p, q) == SelectSeq(SubSeq(src, p + 1, q), IsPayloadByte)

\* C25: when the inner read or the length-header parser fails with an I/O
\* error during a fill, the call returns that error, and the side buffer then
\* holds, from cursor 0, the bytes that were pending followed by the payload
\* bytes the call pulled: the next bytes of the logical stream.  data(k), k up
\* to their number, returns them from the side buffer without error and
\* without touching the inner reader.  Nothing delivered is ever lost or
\* duplicated.
C25_FailedFillKeepsBytes ==
    /\ (~IsLimitor /\ framed) => IsPrefix(delivered, Payload)
    /\ (~IsLimitor /\ Alive /\ fault.kind = "io") =>
          \A name \in PbfDataCalls, a \in Amounts :
              LET r == PbfCall(name, Filter, a)
                  kept == PendingOf(r.f)
              IN  (r.filled /\ r.res = "io") =>
                      /\ r.f.buffer # <<>> /\ r.f.cursor = 0
                      /\ kept = PendingOf(Filter)
                                   \o PayloadBetween(reader.pos, r.f.reader.pos)
                      /\ kept = Take(Rest, Len(kept))
                      /\ \A k \in 0 .. Min(Len(kept), MaxAmount) :
                            LET y == PbfData(r.f, k)
                            IN  /\ y.res = "ok" /\ y.view = kept
                                /\ ~y.filled /\ y.f = r.f

\* C25 witness: a call pulled the rest of a chunk and the length-header
\* parser then failed with an I/O error; the side buffer holds bytes that
\* were pending before the call and the bytes pulled, and data returns them.
C25_Witness ==
    /\ ~IsLimitor /\ Alive /\ fault.kind = "io"
    /\ lastOp.res = "io" /\ lastOp.filled /\ lastOp.herr
    /\ buffer # <<>> /\ cursor = 0 /\ Len(buffer[1]) >= 2
    /\ Len(delivered) >= 1
    /\ PbfData(Filter, Len(buffer[1])).res = "ok"
    /\ PbfData(Filter, Len(buffer[1])).view = Take(Rest, Len(buffer[1]))

\* ================================= claims: the partial body filter, paths

\* What the inner reader returns for the consuming call `name`.
InnerConsuming(name, rd, a) ==
    IF name = "data_consume_hard" THEN InnerDataConsumeHard(rd, a)
    ELSE InnerDataConsume(rd, a)

\* C26: with no side buffer and amount <= counter (or the flag set),
\* data_consume / data_consume_hard hand the call to the inner reader; when
\* that returns a view, the counter falls by min(amount, length of that view),
\* which is what the inner reader consumed, and the call returns that view cut
\* to the counter as it was before the call.  When the inner call fails, so
\* does the call, the counter unchanged.
C26_FastPathConsume ==
    (~IsLimitor /\ Alive) =>
        \A name \in {"data_consume", "data_consume_hard"}, a \in Amounts :
            (buffer = <<>> /\ (a <= partial_body_length \/ last)) =>
                LET r == PbfCall(name, Filter, a)
                    x == InnerConsuming(name, reader, a)
                IN  /\ r.direct /\ ~r.filled /\ r.nh = 0
                    /\ r.f.reader = x.rd
                    /\ r.f.buffer = <<>> /\ r.f.last = last
                    /\ r.res = x.res
                    /\ IF x.res = "ok"
                       THEN /\ r.f.partial_body_length
                                 = partial_body_length - Min(a, Len(x.view))
                            /\ r.f.partial_body_length
                                 = partial_body_length - (x.rd.pos - reader.pos)
                            /\ r.view = Take(x.view, partial_body_length)
                       ELSE r.f.partial_body_length = partial_body_length

\* C26 witness: data_consume on the fast path, the inner reader holding more
\* than the chunk: the view ends where the chunk ends, the counter fell by the
\* amount.
C26_Witness ==
    /\ ~IsLimitor /\ Alive /\ buffer = <<>>
    /\ lastOp.op = "data_consume" /\ lastOp.direct /\ lastOp.res = "ok"
    /\ lastOp.amount >= 1 /\ partial_body_length >= 1
    /\ Len(lastOp.view) = partial_body_length + lastOp.amount
    /\ reader.buf > partial_body_length

\* C27: with a side buffer, consume(amount) trips its assertion unless
\* cursor + amount <= length of the side buffer, and otherwise advances the
\* cursor by amount and nothing else; data, data_hard, data_consume and
\* data_consume_hard that ask for no more than is pending return the pending
\* bytes from the side buffer, the consuming ones advancing the cursor by
\* amount; counter, flag, side buffer and inner reader stay as they are.
C27_SideBufferOnly ==
    (~IsLimitor /\ Alive /\ buffer # <<>>) =>
        /\ \A a \in Amounts :
              LET r == PbfConsume(Filter, a)
              IN  IF cursor + a <= Len(buffer[1])
                  THEN /\ r.res = "ok"
                       /\ r.f = [Filter EXCEPT !.cursor = cursor + a]
                       /\ r.view = PendingOf(Filter)
                  ELSE r.res = "panic"
        /\ \A name \in PbfDataCalls, a \in Amounts :
              LET r == PbfCall(name, Filter, a)
                  consuming == name \in {"data_consume", "data_consume_hard"}
              IN  a <= Pending =>
                      /\ r.res = "ok" /\ r.view = PendingOf(Filter)
                      /\ ~r.filled /\ ~r.direct /\ r.nh = 0
                      /\ r.f = [Filter EXCEPT
                                  !.cursor = IF consuming THEN cursor + a ELSE cursor]

\* C27 witness: a consume within the side buffer left bytes pending there
\* while the counter is above 0; data(1) is served from the side buffer.
C27_Witness ==
    /\ ~IsLimitor /\ Alive /\ buffer # <<>>
    /\ lastOp.op = "consume" /\ lastOp.res = "ok" /\ lastOp.amount >= 1
    /\ cursor = lastOp.amount /\ Pending >= 1 /\ partial_body_length >= 1
    /\ PbfData(Filter, 1).view = PendingOf(Filter)
    /\ PbfData(Filter, 1).f = Filter

\* C28: do_fill_buffer(amount), run from any state where a call of that
\* amount needs a fill, leaves cursor 0 and a side buffer that holds the bytes
\* that were pending followed by the payload bytes it pulled from the inner
\* reader, in source order: the next bytes of the logical stream, never more
\* than amount, and exactly amount unless the logical stream ends before or
\* the fill returns an error.
C28_FillResult ==
    (~IsLimitor /\ Alive) => \A a \in Amounts :
        NeedFill(Filter, a) =>
            LET e == DoFillBuffer(Filter, a)
                buf == e.f.buffer[1]
            IN  /\ e.res # "panic"
                /\ e.f.buffer # <<>> /\ e.f.cursor = 0
                /\ buf = PendingOf(Filter) \o PayloadBetween(reader.pos, e.f.reader.pos)
                /\ IsPrefix(buf, Rest)
                /\ Len(buf) <= a
                /\ e.res = "ok" => (Len(buf) = a \/ buf = Rest)

\* C28 witness: a data(3) after an earlier delivery needed a fill that parsed
\* a header; the side buffer holds the three bytes from cursor 0.
C28_Witness ==
    /\ ~IsLimitor /\ Alive /\ framed
    /\ lastOp.op = "data" /\ lastOp.res = "ok" /\ lastOp.filled /\ lastOp.nh >= 1
    /\ lastOp.amount = 3 /\ Len(delivered) >= 1
    /\ buffer # <<>> /\ cursor = 0 /\ Len(buffer[1]) = 3
    /\ buffer[1] = Take(Rest, 3) /\ lastOp.view = buffer[1]

\* The inner stream, read from offset p on with len bytes of the chunk and
\* flag lst, ends inside a chunk: it holds fewer bytes than a chunk's header
\* announced.
RECURSIVE ChunkCut(_, _, _)
ChunkCut(p, len, lst) ==
    IF p + len > Len(src) THEN TRUE
    ELSE IF lst THEN FALSE
    ELSE LET h == BodyLengthNewFormat([pos |-> p + len, buf |-> 0])
         IN  h.res = "ok" /\ ChunkCut(h.rd.pos, h.len, h.kind = "Full")

\* The payload bytes the inner reader has yet to yield.
InnerPayload == PayloadBetween(reader.pos, Len(src))

\* C29: a fill never pulls more than the space left in its buffer nor, from
\* one chunk, more than the counter; unless the header parser fails, the
\* inner reader has been asked for nothing beyond what was pulled and parsed;
\* the counter falls by exactly the bytes pulled from the chunk.  When the inner stream ends inside a chunk and the request goes
\* beyond it, the short pull ends the fill: no header parse is tried after it,
\* the counter stays above 0, data and data_consume return the short view,
\* and the hard calls end-of-file.
C29_PullsAndShortRead ==
    (~IsLimitor /\ Alive) => \A a \in Amounts :
        NeedFill(Filter, a) =>
            LET e == DoFillBuffer(Filter, a)
                buf == e.f.buffer[1]
                pulled == Len(buf) - Pending
                h == NthHeader(NextHeader, e.nh)
            IN  /\ pulled >= 0 /\ pulled <= a - Pending
                /\ ~e.herr =>
                      e.f.reader.buf = Max(0, SourceRead(reader) - e.f.reader.pos)
                /\ e.nh = 0 =>
                      /\ pulled <= partial_body_length
                      /\ e.f.partial_body_length = partial_body_length - pulled
                /\ (e.nh >= 1 /\ h.res = "ok") =>
                      e.f.partial_body_length
                        = h.len - Len(PayloadBetween(h.rd.pos, e.f.reader.pos))
                /\ (ChunkCut(reader.pos, partial_body_length, last)
                      /\ a > Pending + Len(InnerPayload)) =>
                      /\ e.res = "ok" /\ ~e.herr
                      /\ e.f.partial_body_length > 0
                      /\ e.f.reader.pos = Len(src)
                      /\ buf = Rest /\ Len(buf) < a
                      /\ \A name \in PbfDataCalls :
                            LET r == PbfCall(name, Filter, a)
                            IN  IF name \in PbfHardCalls
                                THEN r.res = "eof" /\ ~r.herr
                                ELSE r.res = "ok" /\ r.view = Rest

\* C29 witness: the inner stream ends inside the chunk at hand; a
\* data_consume that asked for more pulled what was there, came back short,
\* and the counter is still above 0.
C29_Witness ==
    /\ ~IsLimitor /\ Alive /\ ~framed
    /\ lastOp.op = "data_consume" /\ lastOp.res = "ok" /\ lastOp.filled
    /\ lastOp.nh = 0 /\ lastOp.view # <<>>
    /\ Len(lastOp.view) < lastOp.amount
    /\ partial_body_length > 0 /\ Remaining(reader) = 0
    /\ Len(delivered) > Len(lastOp.view)

\* ================================== claims: the partial body filter, peel

\* C30: the inner reader a peel hands out stands after every payload byte the
\* filter has pulled, consumed by the caller or still pending in the side
\* buffer, and after the headers parsed since: it reads on from there, and
\* none of the pending bytes comes out of it.
C30_PeelDoesNotRewind ==
    (~IsLimitor /\ lastOp.op = "into_inner") =>
        /\ PayloadBefore(reader.pos) = delivered \o PendingOf(Filter)
        /\ \A k \in Amounts :
              LET d == InnerData(reader, k)
              IN  /\ d.res = "ok" /\ d.rd.pos = reader.pos
                  /\ d.view = InnerView(reader, Len(d.view))
                  /\ Len(d.view) >= Min(k, Remaining(reader))
                  /\ \A i \in 1 .. Len(d.view), j \in 1 .. Pending :
                        d.view[i] # PendingOf(Filter)[j]

\* C30 witness: a data call crossed a chunk boundary, nothing was consumed,
\* and the filter was peeled: the inner reader stands after the header and the
\* bytes pulled, with bytes left to read.
C30_Witness ==
    /\ ~IsLimitor /\ lastOp.op = "into_inner" /\ framed
    /\ delivered = <<>> /\ Pending >= 2 /\ reader.pos > Pending
    /\ Remaining(reader) >= 1
    /\ IsPayloadByte(InnerData(reader, 1).view[1])

\* ============================ claims: the partial body filter, invariants

\* C31: every view a call of the filter returns holds payload bytes only:
\* no byte of a length header and no byte that follows the last chunk.
C31_OnlyPayloadVisible ==
    (~IsLimitor /\ lastOp.op \in PbfCalls /\ lastOp.res = "ok") =>
        \A i \in 1 .. Len(lastOp.view) : IsPayloadByte(lastOp.view[i])

\* The lengths announced by the headers parsed so far: the headers of the inner
\* stream from offset p on that lie before offset upto.
RECURSIVE Announced(_, _)
Announced(p, upto) ==
    IF p >= upto THEN 0
    ELSE LET h == BodyLengthNewFormat([pos |-> p, buf |-> 0])
         IN  IF h.res # "ok" \/ h.rd.pos > upto THEN 0
             ELSE IF h.kind = "Partial" THEN h.len + Announced(h.rd.pos + h.len, upto)
             ELSE h.len

\* C32: conservation: the bytes the caller consumed, the bytes pending in the
\* side buffer and the counter add up to the initial chunk length plus the
\* lengths announced by the headers parsed so far.
C32_Conservation ==
    ~IsLimitor =>
        Len(delivered) + Pending + partial_body_length
            = initial + Announced(initial, reader.pos)

\* C32 witness: a header has been parsed, and bytes have been consumed, bytes
\* are pending in the side buffer and bytes of the chunk are still to pull.
C32_Witness ==
    /\ ~IsLimitor /\ framed /\ ~panicked
    /\ Len(delivered) >= 1 /\ Pending >= 1 /\ partial_body_length >= 1
    /\ Announced(initial, reader.pos) >= 2

\* C33: the cursor is 0 while there is no side buffer, and lies within the
\* side buffer once there is one; with a caller that consumes no more than
\* it was shown, no assertion of the filter fails.
C33_CursorInvariant ==
    ~IsLimitor =>
        /\ buffer = <<>> => cursor = 0
        /\ buffer # <<>> => (0 <= cursor /\ cursor <= Len(buffer[1]))
        /\ ~panicked

\* C33 witness: a data_consume asked for more than was left of the stream and
\* took every byte of the side buffer: the cursor stands at its end.
C33_Witness ==
    /\ ~IsLimitor /\ buffer # <<>> /\ cursor = Len(buffer[1]) /\ cursor >= 2
    /\ lastOp.op = "data_consume" /\ lastOp.res = "ok"
    /\ Len(lastOp.view) < lastOp.amount

\* ================= the partial body filter, do_fill_buffer turn by turn

\* A data call that needs a fill enters do_fill_buffer: the new buffer starts
\* with the bytes pending in the old one.
FillBegin(name, a) ==
    /\ Alive /\ fill.pc = "idle"
    /\ ~(buffer = <<>> /\ cursor # 0)
    /\ NeedFill(Filter, a)
    /\ fill' = [pc |-> "loop", op |-> name, amount |-> a, acc |-> PendingOf(Filter),
                err |-> "none", nh |-> 0, herr |-> FALSE, turns |-> 0]
    /\ UNCHANGED <<src, reader, limit, limit0, ref, partial_body_length, last, buffer,
                   cursor, initial, delivered, peeked, lastOp, framed, panicked, fault,
                   ctb, conv>>

\* One turn of the loop.
FillStep ==
    /\ fill.pc = "loop"
    /\ \E t \in {FillTurn(partial_body_length, last, reader, fill.acc, fill.amount,
                           fill.nh)} :
          /\ partial_body_length' = t.pbl
          /\ last' = t.last
          /\ reader' = t.rd
          /\ fill' = [fill EXCEPT !.pc = IF t.exit THEN "exit" ELSE "loop",
                                   !.acc = t.acc, !.err = t.err, !.nh = t.nh,
                                   !.herr = t.herr, !.turns = fill.turns + 1]
    /\ UNCHANGED <<src, limit, limit0, ref, buffer, cursor, initial, delivered, peeked,
                   lastOp, framed, panicked, fault, ctb, conv>>

\* After the loop: do_fill_buffer installs the buffer and returns, and
\* data_helper finishes the call.
FillReturn ==
    /\ fill.pc = "exit"
    /\ \E r \in {AfterFill(FillInstall([pbl |-> partial_body_length, last |-> last,
                                         rd |-> reader, acc |-> fill.acc,
                                         err |-> fill.err, nh |-> fill.nh,
                                         herr |-> fill.herr]),
                            fill.amount,
                            fill.op \in {"data_hard", "data_consume_hard"},
                            fill.op \in {"data_consume", "data_consume_hard"})} :
          LET n == Min(fill.amount, Len(r.view))
          IN  IF fill.op \in {"data_consume", "data_consume_hard"}
              THEN PbfEffect(fill.op, fill.amount, r,
                             IF r.res = "ok" THEN SubSeq(r.view, 1, n) ELSE <<>>,
                             IF r.res = "ok" THEN Max(0, peeked - n) ELSE peeked)
              ELSE PbfEffect(fill.op, fill.amount, r, <<>>,
                             IF r.res = "ok" THEN Len(r.view) ELSE peeked)

FillNext ==
    \/ fill.pc = "idle" /\ PbfNext
    \/ \E name \in PbfDataCalls, a \in Amounts : FillBegin(name, a)
    \/ FillStep
    \/ FillReturn

SpecFill == PbfInit /\ [][FillNext]_vars

\* C34: a fill comes to an end: no turn of the loop trips an assertion, and
\* every turn either leaves the loop or moves the inner reader forward, by a
\* pull of at least one byte or by the parse of one header; so the loop makes
\* at most one turn more than the inner stream has bytes.
C34_FillTerminates ==
    [][fill.pc = "loop" =>
          /\ fill'.err # "panic"
          /\ fill'.turns <= Len(src) + 1
          /\ \/ fill'.pc = "exit"
             \/ /\ reader'.pos > reader.pos
                /\ Len(fill'.acc) > Len(fill.acc) \/ fill'.nh = fill.nh + 1]_vars

\* C34 witness: a fill left its loop in its third turn, having pulled three
\* bytes and parsed two headers.
C34_Witness ==
    /\ fill.pc = "exit" /\ fill.err = "none"
    /\ fill.turns = 3 /\ fill.nh = 2 /\ Len(fill.acc) = 3

\* ================================================ PacketLengthType, u8

\* try_from(u), and u8::from of the length type it returns.
TryFromThenInto(u) ==
    /\ \E r \in {PacketLengthTypeTryFrom(u)} :
          conv' = [op |-> "try_from", u |-> IF r.res = "ok"
                                            THEN U8FromPacketLengthType(r.l) ELSE u,
                   l |-> r.l, res |-> r.res, arg |-> u]
    /\ UNCHANGED <<src, reader, limit, limit0, ref, partial_body_length, last, buffer,
                   cursor, initial, delivered, peeked, lastOp, framed, panicked, fault,
                   ctb, fill>>

\* u8::from(l), and try_from of the u8 it returns.
IntoThenTryFrom(l) ==
    /\ \E u \in {U8FromPacketLengthType(l)} :
          conv' = [op |-> "from", u |-> u, l |-> PacketLengthTypeTryFrom(u).l,
                   res |-> PacketLengthTypeTryFrom(u).res, arg |-> l]
    /\ UNCHANGED <<src, reader, limit, limit0, ref, partial_body_length, last, buffer,
                   cursor, initial, delivered, peeked, lastOp, framed, panicked, fault,
                   ctb, fill>>

ConvNext ==
    \/ \E u \in U8 : TryFromThenInto(u)
    \/ \E l \in PacketLengthTypes : IntoThenTryFrom(l)

SpecConv == CtbInit /\ [][ConvNext]_vars

\* C35: try_from(u8::from(l)) is Ok(l) for every length type l; try_from(u)
\* fails, with InvalidArgument, exactly when u > 3; and for u <= 3 the u8 of
\* the length type it returns is u.
C35_RoundTrip ==
    /\ conv.op = "from" =>
          /\ conv.res = "ok" /\ conv.l = conv.arg
          /\ conv.u \in 0 .. 3
    /\ conv.op = "try_from" =>
          /\ conv.res \in {"ok", "InvalidArgument"}
          /\ conv.res = "InvalidArgument" <=> conv.arg > 3
          /\ conv.res = "ok" => (conv.l \in PacketLengthTypes /\ conv.u = conv.arg)

\* C35 witness: 3 was converted to Indeterminate and back to 3.
C35_Witness ==
    /\ conv.op = "try_from" /\ conv.arg = 3 /\ conv.res = "ok"
    /\ conv.l = "Indeterminate" /\ conv.u = 3

====
